---------------------------- MODULE Spec2Model ----------------------------
(***************************************************************************)
(* The typed-value codec of nt_client (src/nt_client/src/data/type.rs):    *)
(* the DataType taxonomy with its numeric-id and textual-token mappings,   *)
(* and the NetworkTableData conversions between concrete Rust values and   *)
(* the generic rmpv::Value.                                                *)
(*                                                                         *)
(* The codec is a family of pure functions.  Each is an operator below,    *)
(* computed as the code computes it; the state machine is a caller that    *)
(* picks an input, calls one function and may feed the result into the     *)
(* inverse function.  `call` is the sequence of functions applied so far,  *)
(* `arg` the input of the first one and `ret` the value returned by the    *)
(* last one.                                                               *)
(*                                                                         *)
(* The terminal UI of the dashboard (src/src/ui) is the second state       *)
(* machine: `app` is the App struct, `pc` the position of run_ui in its    *)
(* loop (draw, poll a key, drain the NT channel), and `entered_from` the   *)
(* mode in which the fuzzy search that is open was entered.                *)
(***************************************************************************)
EXTENDS Integers, Sequences, FiniteSets, TLC

VARIABLES call, arg, ret, app, pc, entered_from

codec_vars == <<call, arg, ret>>
ui_vars == <<app, pc, entered_from>>
vars == <<call, arg, ret, app, pc, entered_from>>

-----------------------------------------------------------------------------
(* Bounds of the model.                                                    *)

\* ids 0..MaxSmallId are tried one by one (besides the large ids of IdInputs)
MaxSmallId == 40
\* a struct name / free token body has at most this many characters
MaxNameLen == 2
\* a token carries at most this many leading "struct:" prefixes
MaxPrefixReps == 2
MaxArrayLen == 3
\* a redraw sets max_rows to 0..MaxRows
MaxRows == 1
\* the config holds at most this many widgets
MaxWidgets == 2
\* the search input and the label editor hold at most this many characters
MaxInputLen == 1
MaxLabelLen == 1

-----------------------------------------------------------------------------
(* Option<T>                                                               *)

None == [some |-> FALSE]
Some(x) == [some |-> TRUE, v |-> x]

-----------------------------------------------------------------------------
(* Machine integers.  TLC evaluates integers in 32 bits, too few for the   *)
(* u32, i64 and u64 of the code, so an integer is a sign and a magnitude   *)
(* of four 16-bit limbs, most significant first.  Zero is never negative.  *)

LimbBase == 256 * 256
LimbTop == LimbBase - 1
LimbHalf == LimbBase \div 2

Nat64(l3, l2, l1, l0) == [neg |-> FALSE, mag |-> <<l3, l2, l1, l0>>]
Neg64(l3, l2, l1, l0) == [neg |-> TRUE, mag |-> <<l3, l2, l1, l0>>]
Small(n) == Nat64(0, 0, 0, n)

\* a < b on magnitudes (lexicographic on the limbs)
MagLt(a, b) ==
    \E i \in 1..4 : a[i] < b[i] /\ \A j \in 1..(i - 1) : a[j] = b[j]

\* x <= y on signed integers
IntLeq(x, y) ==
    IF x.neg /\ ~y.neg THEN TRUE
    ELSE IF ~x.neg /\ y.neg THEN FALSE
    ELSE IF x.neg THEN ~MagLt(x.mag, y.mag)
    ELSE ~MagLt(y.mag, x.mag)

U32_MAX == Nat64(0, 0, LimbTop, LimbTop)

-----------------------------------------------------------------------------
(* DataType                                                                *)

D_StructSchema == [tag |-> "StructSchema"]
D_Struct(name) == [tag |-> "Struct", name |-> name]
D_Boolean == [tag |-> "Boolean"]
D_Double == [tag |-> "Double"]
D_Int == [tag |-> "Int"]
D_Float == [tag |-> "Float"]
D_String == [tag |-> "String"]
D_Json == [tag |-> "Json"]
D_Raw == [tag |-> "Raw"]
D_Rpc == [tag |-> "Rpc"]
D_Msgpack == [tag |-> "Msgpack"]
D_Protobuf == [tag |-> "Protobuf"]
D_BooleanArray == [tag |-> "BooleanArray"]
D_DoubleArray == [tag |-> "DoubleArray"]
D_IntArray == [tag |-> "IntArray"]
D_FloatArray == [tag |-> "FloatArray"]
D_StringArray == [tag |-> "StringArray"]
D_Other(raw) == [tag |-> "Other", raw |-> raw]

\* the variants that carry no payload
UnitVariants ==
    { D_StructSchema, D_Boolean, D_Double, D_Int, D_Float, D_String, D_Json,
      D_Raw, D_Rpc, D_Msgpack, D_Protobuf, D_BooleanArray, D_DoubleArray,
      D_IntArray, D_FloatArray, D_StringArray }

\* from_id with the array ids shifted by one (16 => DoubleArray, ...)
from_id_shifted(id) ==
    CASE id = Small(0) -> Some(D_Boolean)
      [] id = Small(1) -> Some(D_Double)
      [] id = Small(2) -> Some(D_Int)
      [] id = Small(3) -> Some(D_Float)
      [] id = Small(4) -> Some(D_String)
      [] id = Small(5) -> Some(D_Raw)
      [] id = Small(16) -> Some(D_DoubleArray)
      [] id = Small(17) -> Some(D_IntArray)
      [] id = Small(18) -> Some(D_FloatArray)
      [] id = Small(19) -> Some(D_StringArray)
      [] id = Small(20) -> Some(D_BooleanArray)
      [] OTHER -> None

\* from_id matching on the low byte of the id only (id as u8)
from_id_low_byte(id) ==
    LET b == Small(id.mag[4] % 256) IN
    CASE b = Small(0) -> Some(D_Boolean)
      [] b = Small(1) -> Some(D_Double)
      [] b = Small(2) -> Some(D_Int)
      [] b = Small(3) -> Some(D_Float)
      [] b = Small(4) -> Some(D_String)
      [] b = Small(5) -> Some(D_Raw)
      [] b = Small(16) -> Some(D_BooleanArray)
      [] b = Small(17) -> Some(D_DoubleArray)
      [] b = Small(18) -> Some(D_IntArray)
      [] b = Small(19) -> Some(D_FloatArray)
      [] b = Small(20) -> Some(D_StringArray)
      [] OTHER -> None

\* from_id resolving the shared ids to the last variant of each alias group
from_id_alias(id) ==
    CASE id = Small(0) -> Some(D_Boolean)
      [] id = Small(1) -> Some(D_Double)
      [] id = Small(2) -> Some(D_Int)
      [] id = Small(3) -> Some(D_Float)
      [] id = Small(4) -> Some(D_Json)
      [] id = Small(5) -> Some(D_Protobuf)
      [] id = Small(16) -> Some(D_BooleanArray)
      [] id = Small(17) -> Some(D_DoubleArray)
      [] id = Small(18) -> Some(D_IntArray)
      [] id = Small(19) -> Some(D_FloatArray)
      [] id = Small(20) -> Some(D_StringArray)
      [] OTHER -> None

\* DataType::from_id
from_id(id) ==
    CASE id = Small(0) -> Some(D_Boolean)
      [] id = Small(1) -> Some(D_Double)
      [] id = Small(2) -> Some(D_Int)
      [] id = Small(3) -> Some(D_Float)
      [] id = Small(4) -> Some(D_String)
      [] id = Small(5) -> Some(D_Raw)
      [] id = Small(16) -> Some(D_BooleanArray)
      [] id = Small(17) -> Some(D_DoubleArray)
      [] id = Small(18) -> Some(D_IntArray)
      [] id = Small(19) -> Some(D_FloatArray)
      [] id = Small(20) -> Some(D_StringArray)
      [] OTHER -> None

\* as_id without the Msgpack alternative of the `5` arm
as_id_no_msgpack(d) ==
    CASE d = D_Boolean -> Small(0)
      [] d = D_Double -> Small(1)
      [] d = D_Int -> Small(2)
      [] d = D_Float -> Small(3)
      [] d = D_String \/ d = D_Json -> Small(4)
      [] d = D_Raw \/ d = D_Rpc \/ d = D_Protobuf -> Small(5)
      [] d = D_BooleanArray -> Small(16)
      [] d = D_DoubleArray -> Small(17)
      [] d = D_IntArray -> Small(18)
      [] d = D_FloatArray -> Small(19)
      [] d = D_StringArray -> Small(20)
      [] OTHER -> U32_MAX

\* DataType::as_id
as_id(d) ==
    CASE d = D_Boolean -> Small(0)
      [] d = D_Double -> Small(1)
      [] d = D_Int -> Small(2)
      [] d = D_Float -> Small(3)
      [] d = D_String \/ d = D_Json -> Small(4)
      [] d = D_Raw \/ d = D_Rpc \/ d = D_Msgpack \/ d = D_Protobuf -> Small(5)
      [] d = D_BooleanArray -> Small(16)
      [] d = D_DoubleArray -> Small(17)
      [] d = D_IntArray -> Small(18)
      [] d = D_FloatArray -> Small(19)
      [] d = D_StringArray -> Small(20)
      [] OTHER -> U32_MAX

-----------------------------------------------------------------------------
(* Text.  A string is the sequence of its characters, so that prefixes,    *)
(* suffixes and letter case are what they are in the code.                 *)

\* str::starts_with
starts_with(s, p) == Len(s) >= Len(p) /\ SubSeq(s, 1, Len(p)) = p

\* str::trim_start_matches: removes the prefix for as long as it matches
RECURSIVE trim_start_matches(_, _)
trim_start_matches(s, p) ==
    IF p # <<>> /\ starts_with(s, p)
    THEN trim_start_matches(SubSeq(s, Len(p) + 1, Len(s)), p)
    ELSE s

\* the literal "struct:" of the deserializer
STRUCT_PREFIX == <<"s", "t", "r", "u", "c", "t", ":">>

\* the string literals matched by the deserializer
T_boolean == <<"b", "o", "o", "l", "e", "a", "n">>
T_double == <<"d", "o", "u", "b", "l", "e">>
T_int == <<"i", "n", "t">>
T_float == <<"f", "l", "o", "a", "t">>
T_string == <<"s", "t", "r", "i", "n", "g">>
T_json == <<"j", "s", "o", "n">>
T_raw == <<"r", "a", "w">>
T_rpc == <<"r", "p", "c">>
T_msgpack == <<"m", "s", "g", "p", "a", "c", "k">>
T_protobuf == <<"p", "r", "o", "t", "o", "b", "u", "f">>
T_boolean_arr == <<"b", "o", "o", "l", "e", "a", "n", "[", "]">>
T_double_arr == <<"d", "o", "u", "b", "l", "e", "[", "]">>
T_int_arr == <<"i", "n", "t", "[", "]">>
T_float_arr == <<"f", "l", "o", "a", "t", "[", "]">>
T_string_arr == <<"s", "t", "r", "i", "n", "g", "[", "]">>
T_structschema == <<"s", "t", "r", "u", "c", "t", "s", "c", "h", "e", "m", "a">>

\* the name under which the derived Serialize writes each variant: the
\* identifier of the variant in the enum declaration
VariantName(d) ==
    CASE d.tag = "StructSchema" -> <<"S", "t", "r", "u", "c", "t", "S", "c", "h", "e", "m", "a">>
      [] d.tag = "Struct" -> <<"S", "t", "r", "u", "c", "t">>
      [] d.tag = "Boolean" -> <<"B", "o", "o", "l", "e", "a", "n">>
      [] d.tag = "Double" -> <<"D", "o", "u", "b", "l", "e">>
      [] d.tag = "Int" -> <<"I", "n", "t">>
      [] d.tag = "Float" -> <<"F", "l", "o", "a", "t">>
      [] d.tag = "String" -> <<"S", "t", "r", "i", "n", "g">>
      [] d.tag = "Json" -> <<"J", "s", "o", "n">>
      [] d.tag = "Raw" -> <<"R", "a", "w">>
      [] d.tag = "Rpc" -> <<"R", "p", "c">>
      [] d.tag = "Msgpack" -> <<"M", "s", "g", "p", "a", "c", "k">>
      [] d.tag = "Protobuf" -> <<"P", "r", "o", "t", "o", "b", "u", "f">>
      [] d.tag = "BooleanArray" -> <<"B", "o", "o", "l", "e", "a", "n", "A", "r", "r", "a", "y">>
      [] d.tag = "DoubleArray" -> <<"D", "o", "u", "b", "l", "e", "A", "r", "r", "a", "y">>
      [] d.tag = "IntArray" -> <<"I", "n", "t", "A", "r", "r", "a", "y">>
      [] d.tag = "FloatArray" -> <<"F", "l", "o", "a", "t", "A", "r", "r", "a", "y">>
      [] d.tag = "StringArray" -> <<"S", "t", "r", "i", "n", "g", "A", "r", "r", "a", "y">>
      [] d.tag = "Other" -> <<"O", "t", "h", "e", "r">>

-----------------------------------------------------------------------------
(* Result<T, E>                                                            *)

Ok(x) == [ok |-> TRUE, v |-> x]
Err(e) == [ok |-> FALSE, err |-> e]

-----------------------------------------------------------------------------
(* Textual (de)serialization of DataType.  What a serde data format hands  *)
(* to Deserialize, or receives from Serialize, is a string                 *)
(* [kind |-> "str", s |-> chars], an integer [kind |-> "int", n |-> i] or  *)
(* a single-entry map [kind |-> "map", key |-> chars, value |-> chars]     *)
(* (the externally tagged form of a variant with a payload).  A unit       *)
(* variant is written as the string of its name.                           *)

Str(s) == [kind |-> "str", s |-> s]

\* String::deserialize(deserializer): only a string is accepted
String_deserialize(input) ==
    IF input.kind = "str" THEN Ok(input.s) ELSE Err("invalid type")

\* the arms of `match value.as_str()` after the "struct:" guard
match_token(s) ==
    CASE s = T_boolean -> D_Boolean
      [] s = T_double -> D_Double
      [] s = T_int -> D_Int
      [] s = T_float -> D_Float
      [] s = T_string -> D_String
      [] s = T_json -> D_Json
      [] s = T_raw -> D_Raw
      [] s = T_rpc -> D_Rpc
      [] s = T_msgpack -> D_Msgpack
      [] s = T_protobuf -> D_Protobuf
      [] s = T_boolean_arr -> D_BooleanArray
      [] s = T_double_arr -> D_DoubleArray
      [] s = T_int_arr -> D_IntArray
      [] s = T_float_arr -> D_FloatArray
      [] s = T_string_arr -> D_StringArray
      [] s = T_structschema -> D_StructSchema
      [] OTHER -> D_Other(s)

\* deserialize whose guard tests the prefix "struct" without the colon
deserialize_no_colon(input) ==
    LET value == String_deserialize(input) IN
    IF ~value.ok THEN value
    ELSE IF starts_with(value.v, SubSeq(STRUCT_PREFIX, 1, 6))
         THEN Ok(D_Struct(trim_start_matches(value.v, STRUCT_PREFIX)))
         ELSE Ok(match_token(value.v))

\* deserialize that rejects an unknown token, as a derived Deserialize does
deserialize_strict(input) ==
    LET value == String_deserialize(input) IN
    IF ~value.ok THEN value
    ELSE IF starts_with(value.v, STRUCT_PREFIX)
         THEN Ok(D_Struct(trim_start_matches(value.v, STRUCT_PREFIX)))
         ELSE IF match_token(value.v).tag = "Other"
              THEN Err("unknown variant")
              ELSE Ok(match_token(value.v))

\* <DataType as Deserialize>::deserialize
deserialize(input) ==
    LET value == String_deserialize(input) IN
    IF ~value.ok THEN value
    ELSE IF starts_with(value.v, STRUCT_PREFIX)
         THEN Ok(D_Struct(trim_start_matches(value.v, STRUCT_PREFIX)))
         ELSE Ok(match_token(value.v))

\* <DataType as Serialize>::serialize, derived: a unit variant is written
\* under its identifier, Struct and Other as a newtype variant
serialize(d) ==
    CASE d.tag = "Struct" ->
           [kind |-> "map", key |-> VariantName(d), value |-> d.name]
      [] d.tag = "Other" ->
           [kind |-> "map", key |-> VariantName(d), value |-> d.raw]
      [] OTHER -> Str(VariantName(d))

-----------------------------------------------------------------------------
(* Integer widths: the ranges enforced by the TryFrom conversions.         *)

SignedTypes == {"i8", "i16", "i32", "i64"}
UnsignedTypes == {"u8", "u16", "u32", "u64"}
IntTypes == SignedTypes \cup UnsignedTypes

\* T::MIN
IntMin(T) ==
    CASE T = "i8" -> Neg64(0, 0, 0, 128)
      [] T = "i16" -> Neg64(0, 0, 0, LimbHalf)
      [] T = "i32" -> Neg64(0, 0, LimbHalf, 0)
      [] T = "i64" -> Neg64(LimbHalf, 0, 0, 0)
      [] OTHER -> Small(0)

\* T::MAX
IntMax(T) ==
    CASE T = "i8" -> Small(127)
      [] T = "i16" -> Small(LimbHalf - 1)
      [] T = "i32" -> Nat64(0, 0, LimbHalf - 1, LimbTop)
      [] T = "i64" -> Nat64(LimbHalf - 1, LimbTop, LimbTop, LimbTop)
      [] T = "u8" -> Small(255)
      [] T = "u16" -> Small(LimbTop)
      [] T = "u32" -> U32_MAX
      [] T = "u64" -> Nat64(LimbTop, LimbTop, LimbTop, LimbTop)

\* a conversion that clamps to the range of T instead of failing
try_into_saturating(T, n) ==
    IF ~IntLeq(IntMin(T), n) THEN Some(IntMin(T))
    ELSE IF ~IntLeq(n, IntMax(T)) THEN Some(IntMax(T))
    ELSE Some(n)

\* value.try_into().ok() for an integer target T: the checked conversion
try_into(T, n) ==
    IF IntLeq(IntMin(T), n) /\ IntLeq(n, IntMax(T)) THEN Some(n) ELSE None

-----------------------------------------------------------------------------
(* Floating point.  A finite non-zero number is sign * m * 2^(exp - p + 1) *)
(* with m normalised to the p bits of the format's significand and its     *)
(* leading bit set.  For f32 (p = 24) m is `man`; for f64 (p = 53) m is    *)
(* hi * 2^29 + lo with hi the 24 leading bits and lo the 29 trailing ones. *)
(* A subnormal is written normalised as well, with a smaller exponent.     *)

F_NaN == [cls |-> "nan"]
F_Inf(neg) == [cls |-> "inf", neg |-> neg]
F_Zero(neg) == [cls |-> "zero", neg |-> neg]
F32(neg, exp, man) == [cls |-> "fin", neg |-> neg, exp |-> exp, man |-> man]
F64(neg, exp, hi, lo) ==
    [cls |-> "fin", neg |-> neg, exp |-> exp, hi |-> hi, lo |-> lo]

\* smallest exponent of a normal f32, largest exponent of an f32
F32_MIN_EXP == 0 - 126
F32_MAX_EXP == 128 - 1

\* units of 2^-149 (1 <= units <= 2^23) as a normalised f32
RECURSIVE normalize_f32(_, _, _)
normalize_f32(neg, exp, man) ==
    IF man >= 2^23 THEN F32(neg, exp, man)
    ELSE normalize_f32(neg, exp - 1, man * 2)

\* `num as f32` for num: f64: round to nearest, ties to even; a magnitude
\* beyond the f32 range becomes an infinity, one below it a zero
f64_as_f32(x) ==
    CASE x.cls = "nan" -> F_NaN
      [] x.cls = "inf" -> F_Inf(x.neg)
      [] x.cls = "zero" -> F_Zero(x.neg)
      [] OTHER ->
           IF x.exp >= F32_MIN_EXP
           THEN LET up == x.lo > 2^28 \/ (x.lo = 2^28 /\ x.hi % 2 = 1)
                    m == IF up THEN x.hi + 1 ELSE x.hi
                    man == IF m = 2^24 THEN 2^23 ELSE m
                    e == IF m = 2^24 THEN x.exp + 1 ELSE x.exp
                IN  IF e > F32_MAX_EXP THEN F_Inf(x.neg)
                    ELSE F32(x.neg, e, man)
           ELSE LET k == F32_MIN_EXP - x.exp IN
                IF k > 24 THEN F_Zero(x.neg)
                ELSE LET q == x.hi \div 2^k
                         r == x.hi % 2^k
                         half == 2^(k - 1)
                         up == r > half
                               \/ (r = half /\ (x.lo > 0 \/ q % 2 = 1))
                         units == IF up THEN q + 1 ELSE q
                     IN  IF units = 0 THEN F_Zero(x.neg)
                         ELSE normalize_f32(x.neg, F32_MIN_EXP, units)

\* f64::from(f32): exact
f64_from_f32(x) ==
    IF x.cls = "fin" THEN F64(x.neg, x.exp, x.man, 0) ELSE x

\* the 16 bits of a limb, most significant first
LimbBits(l) == [i \in 1..16 |-> (l \div 2^(16 - i)) % 2]

RECURSIVE BitsToNat(_)
BitsToNat(bits) ==
    IF bits = <<>> THEN 0
    ELSE 2 * BitsToNat(SubSeq(bits, 1, Len(bits) - 1)) + bits[Len(bits)]

\* `n as f64` for a 64-bit integer n: round to nearest, ties to even
int_as_f64(n) ==
    LET bits == LimbBits(n.mag[1]) \o LimbBits(n.mag[2])
                \o LimbBits(n.mag[3]) \o LimbBits(n.mag[4])
        ones == {i \in 1..64 : bits[i] = 1}
    IN  IF ones = {} THEN F_Zero(FALSE)
        ELSE LET lead == CHOOSE i \in ones : \A j \in ones : i <= j
                 sig == SubSeq(bits, lead, 64) \o [i \in 1..52 |-> 0]
                 exp == 64 - lead
                 hi == BitsToNat(SubSeq(sig, 1, 24))
                 lo == BitsToNat(SubSeq(sig, 25, 53))
                 rest == SubSeq(bits, lead + 53, 64)
                 half == IF rest = <<>> THEN 1 ELSE 2^(Len(rest) - 1)
                 up == rest # <<>>
                       /\ (BitsToNat(rest) > half
                           \/ (BitsToNat(rest) = half /\ lo % 2 = 1))
                 lo1 == IF up THEN lo + 1 ELSE lo
                 hi1 == IF lo1 = 2^29 THEN hi + 1 ELSE hi
             IN  IF hi1 = 2^24 THEN F64(n.neg, exp + 1, 2^23, 0)
                 ELSE F64(n.neg, exp, hi1, lo1 % 2^29)

-----------------------------------------------------------------------------
(* rmpv::Value, the generic wire value, and its typed accessors.           *)

V_Nil == [kind |-> "Nil"]
V_Boolean(b) == [kind |-> "Boolean", b |-> b]
V_Integer(n) == [kind |-> "Integer", n |-> n]
V_F32(x) == [kind |-> "F32", x |-> x]
V_F64(x) == [kind |-> "F64", x |-> x]
\* a wire string is a byte string that may or may not be valid UTF-8
V_String(s, utf8) == [kind |-> "String", s |-> s, utf8 |-> utf8]
V_Binary(bytes) == [kind |-> "Binary", bytes |-> bytes]
V_Array(items) == [kind |-> "Array", items |-> items]
\* a wire map is a list of key/value pairs
V_Map(entries) == [kind |-> "Map", entries |-> entries]

\* Option::and_then with a partial function given as an operator
and_then(opt, F(_)) == IF opt.some THEN F(opt.v) ELSE None
\* Option::map
map(opt, F(_)) == IF opt.some THEN Some(F(opt.v)) ELSE None

as_bool(value) == IF value.kind = "Boolean" THEN Some(value.b) ELSE None

\* the signed accessor: an integer above i64::MAX has no i64 view
as_i64(value) ==
    IF value.kind = "Integer" /\ IntLeq(value.n, IntMax("i64"))
    THEN Some(value.n) ELSE None

\* an unsigned accessor that goes through the signed view
as_u64_through_i64(value) ==
    IF value.kind = "Integer" /\ ~value.n.neg
       /\ IntLeq(value.n, IntMax("i64"))
    THEN Some(value.n) ELSE None

\* the unsigned accessor: a negative integer has no u64 view
as_u64(value) ==
    IF value.kind = "Integer" /\ ~value.n.neg THEN Some(value.n) ELSE None

\* the double accessor: every wire number, cast to f64
as_f64(value) ==
    CASE value.kind = "Integer" -> Some(int_as_f64(value.n))
      [] value.kind = "F32" -> Some(f64_from_f32(value.x))
      [] value.kind = "F64" -> Some(value.x)
      [] OTHER -> None

\* the string accessor: only valid UTF-8 has a str view
as_str(value) ==
    IF value.kind = "String" /\ value.utf8 THEN Some(value.s) ELSE None

-----------------------------------------------------------------------------
(* NetworkTableData for the scalar types                                   *)

ScalarTypes == {"bool", "f64", "f32", "String"} \cup IntTypes

\* from_value with a range check on the f32 cast: a finite double that
\* does not fit in f32 is turned down
from_value_f32_checked(T, value) ==
    LET narrow(n) == try_into(T, n) IN
    CASE T = "bool" -> as_bool(value)
      [] T = "f64" -> as_f64(value)
      [] T \in SignedTypes -> and_then(as_i64(value), narrow)
      [] T \in UnsignedTypes -> and_then(as_u64(value), narrow)
      [] T = "f32" ->
           IF as_f64(value).some /\ as_f64(value).v.cls = "fin"
              /\ f64_as_f32(as_f64(value).v).cls = "inf"
           THEN None ELSE map(as_f64(value), f64_as_f32)
      [] T = "String" -> as_str(value)

\* <T as NetworkTableData>::from_value for a scalar T
from_value(T, value) ==
    LET narrow(n) == try_into(T, n) IN
    CASE T = "bool" -> as_bool(value)
      [] T = "f64" -> as_f64(value)
      [] T \in SignedTypes -> and_then(as_i64(value), narrow)
      [] T \in UnsignedTypes -> and_then(as_u64(value), narrow)
      [] T = "f32" -> map(as_f64(value), f64_as_f32)
      [] T = "String" -> as_str(value)

\* <T as NetworkTableData>::into_value for a scalar T: this.into()
into_value(T, this) ==
    CASE T = "bool" -> V_Boolean(this)
      [] T = "f64" -> V_F64(this)
      [] T \in IntTypes -> V_Integer(this)
      [] T = "f32" -> V_F32(this)
      [] T = "String" -> V_String(this, TRUE)

-----------------------------------------------------------------------------
(* The transparent wrappers: a named struct around one public field.       *)

Wrapper(W, inner) == [wrapper |-> W, inner |-> inner]
JsonString(s) == Wrapper("JsonString", s)
RawData(bytes) == Wrapper("RawData", bytes)
Rpc(bytes) == Wrapper("Rpc", bytes)
Protobuf(bytes) == Wrapper("Protobuf", bytes)

ByteWrappers == {"RawData", "Rpc", "Protobuf"}

\* impl Into<rmpv::Value> for the wrapper: self.0.into(); a String becomes
\* a wire string, a Vec<u8> a wire binary blob
transparent_into(this) ==
    IF this.wrapper = "JsonString" THEN V_String(this.inner, TRUE)
    ELSE V_Binary(this.inner)

\* the array accessor
as_array(value) ==
    IF value.kind = "Array" THEN Some(value.items) ELSE None

\* Iterator::collect::<Option<_>>: None as soon as one item is None
collect(opts) ==
    IF \A i \in 1..Len(opts) : opts[i].some
    THEN Some([i \in 1..Len(opts) |-> opts[i].v])
    ELSE None

\* a collect that keeps the items that decoded (filter_map)
collect_lenient(opts) ==
    LET kept == SelectSeq(opts, LAMBDA o : o.some)
    IN  Some([i \in 1..Len(kept) |-> kept[i].v])

-----------------------------------------------------------------------------
(* NetworkTableData for JsonString, rmpv::Value, Vec<T> and the byte       *)
(* wrappers.                                                               *)

\* a JSON decoder that turns down the empty text, which is no JSON document
decode_json_nonempty(value) ==
    IF as_str(value).some /\ as_str(value).v # <<>>
    THEN Some(JsonString(as_str(value).v)) ELSE None

\* value.as_str().map(|str| JsonString(str.to_owned()))
decode_json(value) ==
    IF as_str(value).some THEN Some(JsonString(as_str(value).v)) ELSE None

\* a decoder that takes nil for an absent value
decode_msgpack_no_nil(value) ==
    IF value.kind = "Nil" THEN None ELSE Some(value)

\* Some(value.clone())
decode_msgpack(value) == Some(value)

TransparentTypes == {"JsonString", "rmpv::Value"}

\* from_value of the types whose decoder is written out in the invocation
transparent_from_value(T, value) ==
    CASE T = "JsonString" -> decode_json(value)
      [] T = "rmpv::Value" -> decode_msgpack(value)

\* into_value of the same types: this.into()
transparent_into_value(T, this) ==
    CASE T = "JsonString" -> transparent_into(this)
      [] T = "rmpv::Value" -> this

\* the element decoder that the invocation for T hands to the vec rule
decode_elem(T, value) ==
    LET narrow(n) == try_into(T, n) IN
    CASE T = "bool" -> as_bool(value)
      [] T = "f64" -> as_f64(value)
      [] T \in SignedTypes -> and_then(as_i64(value), narrow)
      [] T \in UnsignedTypes -> and_then(as_u64(value), narrow)
      [] T = "f32" -> map(as_f64(value), f64_as_f32)
      [] T = "String" -> as_str(value)

\* Vec<T>::from_value that skips the elements it cannot decode
vec_from_value_lenient(T, value) ==
    IF ~as_array(value).some THEN None
    ELSE collect_lenient([i \in 1..Len(as_array(value).v) |->
                             decode_elem(T, as_array(value).v[i])])

\* <Vec<T> as NetworkTableData>::from_value
vec_from_value(T, value) ==
    IF ~as_array(value).some THEN None
    ELSE collect([i \in 1..Len(as_array(value).v) |->
                     decode_elem(T, as_array(value).v[i])])

\* Vec<T>::into_value that assembles the array back to front
vec_into_value_reversed(T, this) ==
    V_Array([i \in 1..Len(this) |-> into_value(T, this[Len(this) + 1 - i])])

\* <Vec<T> as NetworkTableData>::into_value: rmpv::Value::from_iter(this),
\* an array of the elements, each converted by Into<rmpv::Value>
vec_into_value(T, this) ==
    V_Array([i \in 1..Len(this) |-> into_value(T, this[i])])

\* a byte-wrapper decoder that also takes a wire binary blob
bytes_from_value_or_binary(W, value) ==
    LET narrow(n) == try_into("u8", n) IN
    IF value.kind = "Binary" THEN Some(Wrapper(W, value.bytes))
    ELSE IF ~as_array(value).some THEN None
    ELSE LET items == collect([i \in 1..Len(as_array(value).v) |->
                         and_then(as_u64(as_array(value).v[i]), narrow)])
         IN  IF items.some THEN Some(Wrapper(W, items.v)) ELSE None

\* <W as NetworkTableData>::from_value for W in RawData, Rpc, Protobuf
bytes_from_value(W, value) ==
    LET narrow(n) == try_into("u8", n) IN
    IF ~as_array(value).some THEN None
    ELSE LET items == collect([i \in 1..Len(as_array(value).v) |->
                         and_then(as_u64(as_array(value).v[i]), narrow)])
         IN  IF items.some THEN Some(Wrapper(W, items.v)) ELSE None

\* a byte-wrapper encoder that goes through the wrapper's Into<rmpv::Value>
bytes_into_value_transparent(W, this) == transparent_into(this)

\* <W as NetworkTableData>::into_value: let vec: Vec<u8> = this.into();
\* rmpv::Value::from_iter(vec)
bytes_into_value(W, this) ==
    V_Array([i \in 1..Len(this.inner) |-> V_Integer(this.inner[i])])

\* data_type() with raw bytes for Vec<u8>
vec_data_type_raw_bytes(T) ==
    CASE T = "bool" -> D_BooleanArray
      [] T = "f64" -> D_DoubleArray
      [] T = "u8" -> D_Raw
      [] T \in IntTypes \ {"u8"} -> D_IntArray
      [] T = "f32" -> D_FloatArray
      [] T = "String" -> D_StringArray

\* <Vec<T> as NetworkTableData>::data_type
vec_data_type(T) ==
    CASE T = "bool" -> D_BooleanArray
      [] T = "f64" -> D_DoubleArray
      [] T \in IntTypes -> D_IntArray
      [] T = "f32" -> D_FloatArray
      [] T = "String" -> D_StringArray

\* <T as NetworkTableData>::data_type
data_type(T) ==
    CASE T = "bool" -> D_Boolean
      [] T = "f64" -> D_Double
      [] T \in IntTypes -> D_Int
      [] T = "f32" -> D_Float
      [] T = "String" -> D_String
      [] T = "JsonString" -> D_Json
      [] T = "RawData" -> D_Raw
      [] T = "Rpc" -> D_Rpc
      [] T = "rmpv::Value" -> D_Msgpack
      [] T = "Protobuf" -> D_Protobuf

-----------------------------------------------------------------------------
(* The wire-id (de)serializer: a DataType written and read as its id.      *)

DigitChar(d) == <<"0", "1", "2", "3", "4", "5", "6", "7", "8", "9">>[d + 1]

\* quotient and remainder of a magnitude divided by ten, limb by limb
DivMag10(m) ==
    LET c2 == (m[1] % 10) * LimbBase + m[2]
        c3 == (c2 % 10) * LimbBase + m[3]
        c4 == (c3 % 10) * LimbBase + m[4]
    IN  [q |-> <<m[1] \div 10, c2 \div 10, c3 \div 10, c4 \div 10>>,
         r |-> c4 % 10]

RECURSIVE MagDigits(_)
MagDigits(m) ==
    IF m = <<0, 0, 0, 0>> THEN <<>>
    ELSE MagDigits(DivMag10(m).q) \o <<DigitChar(DivMag10(m).r)>>

\* the Display of an integer, as format!("{v}") writes it
Decimal(n) ==
    IF n.mag = <<0, 0, 0, 0>> THEN <<"0">>
    ELSE (IF n.neg THEN <<"-">> ELSE <<>>) \o MagDigits(n.mag)

\* the Display of std's TryFromIntError
TRY_FROM_INT_ERROR ==
    <<"o", "u", "t", " ", "o", "f", " ", "r", "a", "n", "g", "e", " ",
      "i", "n", "t", "e", "g", "r", "a", "l", " ", "t", "y", "p", "e",
      " ", "c", "o", "n", "v", "e", "r", "s", "i", "o", "n", " ", "a",
      "t", "t", "e", "m", "p", "t", "e", "d">>

\* the text after {v} in the format string of visit_u64
NOT_A_VALID_TYPE_ID ==
    <<" ", "i", "s", " ", "n", "o", "t", " ", "a", " ", "v", "a", "l",
      "i", "d", " ", "t", "y", "p", "e", " ", "i", "d">>

\* DataTypeVisitor::expecting
expecting ==
    <<"a", " ", "v", "a", "l", "i", "d", " ", "t", "y", "p", "e", " ",
      "i", "d">>

\* serde's Error::invalid_type for a string, the default of the visit_
\* methods that the visitor does not define
invalid_type(input) ==
    <<"i", "n", "v", "a", "l", "i", "d", " ", "t", "y", "p", "e", ":",
      " ", "s", "t", "r", "i", "n", "g", " ", "\"">>
    \o input.s \o <<"\"", ",", " ", "e", "x", "p", "e", "c", "t", "e", "d", " ">>
    \o expecting

\* Option::ok_or
ok_or(opt, e) == IF opt.some THEN Ok(opt.v) ELSE Err(e)

\* visit_u64 with the wrapping cast `v as u32` for the id
visit_u64_wrapping(v) ==
    ok_or(from_id(Nat64(0, 0, v.mag[3], v.mag[4])),
          Decimal(v) \o NOT_A_VALID_TYPE_ID)

\* DataTypeVisitor::visit_u64
visit_u64(v) ==
    IF ~try_into("u32", v).some THEN Err(TRY_FROM_INT_ERROR)
    ELSE ok_or(from_id(try_into("u32", v).v),
               Decimal(v) \o NOT_A_VALID_TYPE_ID)

\* DataTypeVisitor::visit_i64
visit_i64(v) ==
    IF ~try_into("u64", v).some THEN Err(TRY_FROM_INT_ERROR)
    ELSE visit_u64(try_into("u64", v).v)

\* deserialize_u32: deserializer.deserialize_u32(DataTypeVisitor); the data
\* format hands the visitor the integer it holds, signed or unsigned
deserialize_u32(input) ==
    CASE input.kind = "i64" -> visit_i64(input.n)
      [] input.kind = "u64" -> visit_u64(input.n)
      [] OTHER -> Err(invalid_type(input))

\* serialize_as_u32: serializer.serialize_u32(data_type.as_id())
serialize_as_u32(d) == [kind |-> "u64", n |-> as_id(d)]

-----------------------------------------------------------------------------
(* The inputs the caller draws from.                                       *)

\* u32 ids: the small ones, ids whose low byte or low limb is a valid id,
\* and the top of the u32 range
IdInputs ==
    {Small(n) : n \in 0..MaxSmallId}
    \cup { Small(256 + 4), Small(LimbTop), Nat64(0, 0, 1, 4),
           Nat64(0, 0, LimbHalf, 0), Nat64(0, 0, LimbTop, LimbTop - 1),
           U32_MAX }

NameChars == {"x", "s", ":"}
BaseNames == UNION {[1..n -> NameChars] : n \in 0..MaxNameLen}

RECURSIVE Repeat(_, _)
Repeat(p, k) == IF k = 0 THEN <<>> ELSE p \o Repeat(p, k - 1)

T_banana == <<"b", "a", "n", "a", "n", "a">>
T_struct_Rotation2d ==
    STRUCT_PREFIX \o <<"R", "o", "t", "a", "t", "i", "o", "n", "2", "d">>

FixedTokens ==
    { T_boolean, T_double, T_int, T_float, T_string, T_json, T_raw, T_rpc,
      T_msgpack, T_protobuf, T_boolean_arr, T_double_arr, T_int_arr,
      T_float_arr, T_string_arr, T_structschema }

\* tokens: the fixed ones, the variant identifiers (the fixed tokens in
\* another letter case), names under 0..MaxPrefixReps "struct:" prefixes,
\* names after "struct" without the colon, and names before the prefix
TokenInputs ==
    FixedTokens
    \cup {VariantName(d) : d \in UnitVariants}
    \cup {Repeat(STRUCT_PREFIX, k) \o n : k \in 0..MaxPrefixReps, n \in BaseNames}
    \cup {SubSeq(STRUCT_PREFIX, 1, 6) \o n : n \in BaseNames}
    \cup {n \o STRUCT_PREFIX : n \in BaseNames \ {<<>>}}
    \cup {T_banana, T_struct_Rotation2d}

\* what the data format hands to Deserialize: a string, or a number
DeserializerInputs ==
    {Str(t) : t \in TokenInputs} \cup {[kind |-> "int", n |-> Small(4)]}

DataTypeInputs ==
    UnitVariants
    \cup {D_Struct(n) : n \in BaseNames}
    \cup {D_Other(n) : n \in BaseNames \cup {T_banana, T_boolean}}

\* wire integers: the small ones and the neighbours of every bound of the
\* eight integer types, over the whole range [-2^63, 2^64) of a wire integer
WireInts ==
    {Small(n) : n \in 0..MaxSmallId}
    \cup {Neg64(0, 0, 0, n) : n \in 1..MaxSmallId}
    \cup { Neg64(LimbHalf, 0, 0, 0), Neg64(LimbHalf - 1, LimbTop, LimbTop, LimbTop),
           Neg64(0, 1, 0, 0), Neg64(0, 0, LimbHalf, 1), Neg64(0, 0, LimbHalf, 0),
           Neg64(0, 0, LimbHalf - 1, LimbTop), Neg64(0, 0, 0, LimbHalf + 1),
           Neg64(0, 0, 0, LimbHalf), Neg64(0, 0, 0, LimbHalf - 1),
           Neg64(0, 0, 0, 129), Neg64(0, 0, 0, 128), Neg64(0, 0, 0, 127),
           Small(126), Small(127), Small(128), Small(200), Small(254),
           Small(255), Small(256), Small(300), Small(LimbHalf - 1),
           Small(LimbHalf), Small(LimbTop), Nat64(0, 0, 1, 0),
           Nat64(0, 0, LimbHalf - 1, LimbTop), Nat64(0, 0, LimbHalf, 0),
           U32_MAX, Nat64(0, 1, 0, 0), Nat64(0, 1, 0, 200),
           Nat64(LimbHalf - 1, LimbTop, LimbTop, LimbTop),
           Nat64(LimbHalf, 0, 0, 0), Nat64(LimbHalf, 0, 0, 1),
           Nat64(LimbTop, LimbTop, LimbTop, LimbTop - 1),
           Nat64(LimbTop, LimbTop, LimbTop, LimbTop) }

\* f64 values: NaN, the infinities, the zeros, and for a spread of exponents
\* (inside, at the edge of and beyond the f32 range) significands that are
\* exact in f32, just above, at and just below a rounding tie, and full
F64Exps == {0 - 1022, 0 - 150, 0 - 149, 0 - 127, 0 - 126, 0 - 1, 0, 1, 127, 128, 1023}
F64Samples ==
    {F_NaN}
    \cup {F_Inf(b) : b \in BOOLEAN}
    \cup {F_Zero(b) : b \in BOOLEAN}
    \cup {F64(b, 0 - 1074, 2^23, 0) : b \in BOOLEAN}
    \cup { F64(b, e, hi, lo) :
             b \in BOOLEAN, e \in F64Exps,
             hi \in {2^23, 2^23 + 1, 2^24 - 1},
             lo \in {0, 1, 2^28, 2^28 + 1, 2^29 - 1} }

\* f32 values: NaN, the infinities, the zeros, normal numbers at both ends
\* of the exponent range, the smallest and the largest subnormal
F32Samples ==
    {F_NaN}
    \cup {F_Inf(b) : b \in BOOLEAN}
    \cup {F_Zero(b) : b \in BOOLEAN}
    \cup {F32(b, 0 - 149, 2^23) : b \in BOOLEAN}
    \cup {F32(b, 0 - 127, 2^24 - 2) : b \in BOOLEAN}
    \cup { F32(b, e, man) :
             b \in BOOLEAN, e \in {F32_MIN_EXP, 0 - 1, 0, 1, F32_MAX_EXP},
             man \in {2^23, 2^23 + 1, 2^24 - 1} }

StringSamples == BaseNames \cup {T_banana, T_boolean}

\* the values of the Rust type T
ValuesOf(T) ==
    CASE T = "bool" -> BOOLEAN
      [] T = "f64" -> F64Samples
      [] T = "f32" -> F32Samples
      [] T = "String" -> StringSamples
      [] T \in IntTypes ->
           {n \in WireInts : IntLeq(IntMin(T), n) /\ IntLeq(n, IntMax(T))}

\* wire values of every kind
WireValues ==
    {V_Nil}
    \cup {V_Boolean(b) : b \in BOOLEAN}
    \cup {V_Integer(n) : n \in WireInts}
    \cup {V_F32(x) : x \in F32Samples}
    \cup {V_F64(x) : x \in F64Samples}
    \cup {V_String(t, u) : t \in StringSamples, u \in BOOLEAN}
    \cup {V_Binary(<<>>), V_Binary(<<Small(1)>>)}
    \cup {V_Array(<<>>), V_Array(<<V_Integer(Small(1))>>), V_Array(<<V_Boolean(TRUE)>>)}
    \cup { V_Array(<<V_Array(<<V_Integer(Small(1))>>), V_Nil>>), V_Map(<<>>),
           V_Map(<< <<V_String(<<"x">>, TRUE), V_Integer(Small(1))>> >>) }

T_oops == <<"o", "o", "p", "s">>

\* the sequences over S of length 0..MaxArrayLen
SeqsUpTo(S) == UNION {[1..n -> S] : n \in 0..MaxArrayLen}

\* elements of wire arrays: bytes at both ends of 0..=255, the integers
\* just outside, and a string among integers
WireElems ==
    { V_Integer(Small(0)), V_Integer(Small(1)), V_Integer(Small(2)),
      V_Integer(Small(3)), V_Integer(Small(255)), V_Integer(Small(256)),
      V_Integer(Neg64(0, 0, 0, 1)), V_String(T_oops, TRUE) }

\* wire arrays: every sequence of WireElems, and arrays of each other kind
\* of element, alone and after an integer
WireArrays ==
    {V_Array(items) : items \in SeqsUpTo(WireElems)}
    \cup { V_Array(pre \o <<e>>) :
             pre \in {<<>>, <<V_Integer(Small(1))>>},
             e \in { V_Nil, V_Boolean(TRUE), V_Boolean(FALSE),
                     V_F64(F64(FALSE, 0, 2^23, 0)), V_F64(F64(FALSE, 128, 2^23, 0)),
                     V_F64(F_NaN), V_F32(F32(FALSE, 0, 2^23)),
                     V_String(T_oops, FALSE), V_String(<<>>, TRUE),
                     V_Integer(Nat64(LimbTop, LimbTop, LimbTop, LimbTop)),
                     V_Integer(Neg64(LimbHalf, 0, 0, 0)),
                     V_Binary(<<Small(1)>>), V_Array(<<V_Integer(Small(1))>>),
                     V_Map(<<>>) } }

\* what Vec<T>::from_value and the byte wrappers are handed: arrays, and a
\* value of each kind that is no array
ArrayDecoderInputs ==
    WireArrays
    \cup { V_Nil, V_Boolean(TRUE), V_Integer(Small(1)), V_F64(F_Zero(FALSE)),
           V_String(T_oops, TRUE), V_Binary(<<>>),
           V_Binary(<<Small(0), Small(1), Small(255)>>), V_Map(<<>>) }

\* a few values of each element type: both ends of its range, a NaN
VecElems(T) ==
    CASE T = "bool" -> BOOLEAN
      [] T = "f64" -> {F_NaN, F64(FALSE, 0, 2^23, 0), F64(TRUE, 1023, 2^24 - 1, 2^29 - 1)}
      [] T = "f32" -> {F_NaN, F32(FALSE, 0, 2^23), F32(TRUE, 0 - 149, 2^23)}
      [] T = "String" -> {<<>>, <<"x">>, T_oops}
      [] T \in IntTypes -> {IntMin(T), Small(1), IntMax(T)}

\* byte sequences
ByteSeqs == SeqsUpTo({Small(0), Small(1), Small(255)})

\* what the data format hands the wire-id visitor: signed and unsigned
\* 64-bit integers, and something that is no integer
WireIdInputs ==
    {[kind |-> "u64", n |-> n] : n \in {m \in WireInts : ~m.neg} \cup {Small(99), Nat64(0, 1, 0, 4)}}
    \cup {[kind |-> "i64", n |-> n] :
             n \in {m \in WireInts : IntLeq(m, IntMax("i64"))} \cup {Small(99), Nat64(0, 1, 0, 4)}}
    \cup {Str(T_int)}

-----------------------------------------------------------------------------
(* The dashboard UI: config.rs, ui/app.rs, ui/fuzzy.rs.                    *)
(*                                                                         *)
(* A usize is written as its bit pattern read as an isize, so that         *)
(* usize::MAX is -1, `as isize` and `as usize` change nothing, and a       *)
(* wrapping subtraction is the subtraction of the integers.  Every value   *)
(* of the model is within a few units of zero, where this is exact.        *)

USIZE_MAX == 0 - 1

\* a < b for a, b: usize
usize_lt(a, b) == IF (a < 0) = (b < 0) THEN a < b ELSE b < 0

\* Ord::max, Ord::min for isize
max(a, b) == IF a >= b THEN a ELSE b
min(a, b) == IF a <= b THEN a ELSE b

\* the characters of topics and of typed text, in the order of their bytes
Alphabet == <<" ", "a", "h", "j", "k", "l", "q", "s">>
CharRank(c) == CHOOSE i \in 1..Len(Alphabet) : Alphabet[i] = c

\* s < t for Strings: byte-wise lexicographic
RECURSIVE string_lt(_, _)
string_lt(s, t) ==
    IF t = <<>> THEN FALSE
    ELSE IF s = <<>> THEN TRUE
    ELSE IF s[1] # t[1] THEN CharRank(s[1]) < CharRank(t[1])
    ELSE string_lt(Tail(s), Tail(t))

\* the orders in which a set can be laid out as a Vec
Orders(S) ==
    {f \in [1..Cardinality(S) -> S] :
        \A i, j \in 1..Cardinality(S) : i # j => f[i] # f[j]}

\* vec.sort() after collecting a HashSet<String>
sorted(S) ==
    CHOOSE f \in Orders(S) :
        \A i \in 1..(Cardinality(S) - 1) : string_lt(f[i], f[i + 1])

\* GridPosition and Widget of config.rs; the widget type is always Text
GridPosition(row, col, row_span, col_span) ==
    [row |-> row, col |-> col, row_span |-> row_span, col_span |-> col_span]
Widget(topic, label, position) ==
    [topic |-> topic, label |-> label, widget_type |-> "Text",
     position |-> position]

\* the topics that the NT server publishes, and the text of a value
Topics == {<<"a">>, <<"s">>}
Values == {"0"}

\* FuzzySearch::new
FuzzySearch_new == [input |-> <<>>, matches |-> <<>>, selected_index |-> 0]

\* App::new on a fresh config directory: Config::load finds no file and
\* returns the empty config.  `values` is total over Topics, None for a key
\* that the map does not hold.  The fields that only rendering reads
\* (last_activity, highlight_visible, cursor_visible, copy_message and its
\* timestamp, list_state) are left out, and update_activity with them.
App_new ==
    [ values |-> [t \in Topics |-> None],
      connection_status |-> "Disconnected",
      available_topics |-> {},
      mode |-> "Main",
      fuzzy_search |-> FuzzySearch_new,
      config |-> [widgets |-> <<>>],
      paused |-> FALSE,
      selected_cell |-> None,
      label_edit |-> <<>>,
      max_rows |-> 8 ]

\* SkimMatcherV2::fuzzy_match(item, query).is_some(): the characters of the
\* query occur in the item in their order
RECURSIVE fuzzy_match(_, _)
fuzzy_match(item, query) ==
    IF query = <<>> THEN TRUE
    ELSE IF item = <<>> THEN FALSE
    ELSE IF item[1] = query[1] THEN fuzzy_match(Tail(item), Tail(query))
    ELSE fuzzy_match(Tail(item), query)

\* Matcher::match_items: the items that match, by score; the scores are the
\* matcher's own, so every order of the matching items is possible
match_items(query, items) ==
    Orders({item \in items : fuzzy_match(item, query)})

\* the tail of update_matches: reset the selection or pull it into range
adjust_selection(fs) ==
    IF fs.matches = <<>> THEN [fs EXCEPT !.selected_index = 0]
    ELSE IF fs.selected_index >= Len(fs.matches)
         THEN [fs EXCEPT !.selected_index = Len(fs.matches) - 1]
         ELSE fs

\* update_matches without the adjustment of the selection
update_matches_keep_index(fs, available_topics) ==
    IF fs.input = <<>>
    THEN {[fs EXCEPT !.matches = sorted(available_topics)]}
    ELSE {[fs EXCEPT !.matches = m] : m \in match_items(fs.input, available_topics)}

\* FuzzySearch::update_matches: the possible results
update_matches(fs, available_topics) ==
    IF fs.input = <<>>
    THEN {adjust_selection([fs EXCEPT !.matches = sorted(available_topics)])}
    ELSE {adjust_selection([fs EXCEPT !.matches = m]) :
             m \in match_items(fs.input, available_topics)}

\* FuzzySearch::get_selected: matches.get(selected_index)
get_selected(fs) ==
    IF fs.selected_index < Len(fs.matches)
    THEN Some(fs.matches[fs.selected_index + 1]) ELSE None

\* FuzzySearch::move_selection
fuzzy_move_selection(fs, offset) ==
    IF fs.matches = <<>> THEN fs
    ELSE LET len == Len(fs.matches)
             current == fs.selected_index
         IN  [fs EXCEPT !.selected_index =
                 IF offset < 0
                 THEN IF current = 0 THEN len - 1 ELSE current - (0 - offset)
                 ELSE (current + offset) % len]

\* App::is_position_occupied
is_position_occupied(this, row, col) ==
    \E i \in 1..Len(this.config.widgets) :
        LET w == this.config.widgets[i] IN
        /\ row >= w.position.row
        /\ row < w.position.row + w.position.row_span
        /\ col >= w.position.col
        /\ col < w.position.col + w.position.col_span

\* App::find_next_grid_position
find_next_grid_position(this) ==
    LET free == {cell \in (0..(this.max_rows - 1)) \X (0..4) :
                    ~is_position_occupied(this, cell[1], cell[2])}
    IN  IF free = {} THEN GridPosition(0, 0, 1, 1)
        ELSE LET first == CHOOSE cell \in free : \A other \in free :
                              \/ cell[1] < other[1]
                              \/ cell[1] = other[1] /\ cell[2] <= other[2]
             IN  GridPosition(first[1], first[2], 1, 1)

\* App::toggle_pause
toggle_pause(this) == [this EXCEPT !.paused = ~this.paused]

\* `self.max_rows - 1` overflows: a panic where overflow checks are compiled
\* in, a wrap to usize::MAX where they are not
move_selection_overflows(this) == this.max_rows = 0

\* App::move_selection, with wrapping arithmetic
move_selection(this, row_delta, col_delta) ==
    LET cell == IF this.selected_cell.some THEN this.selected_cell.v ELSE <<0, 0>>
        new_row == min(max(cell[1] + row_delta, 0), this.max_rows - 1)
        new_col == min(max(cell[2] + col_delta, 0), 4)
    IN  [this EXCEPT !.selected_cell = Some(<<new_row, new_col>>)]

\* App::enter_cell_config
enter_cell_config(this) ==
    IF this.selected_cell.some THEN [this EXCEPT !.mode = "CellConfig"] ELSE this

\* App::exit_cell_config
exit_cell_config(this) == [this EXCEPT !.mode = "Main"]

\* the index in config.widgets of the widget that
\* get_widget_at_selected_cell(_mut) finds: the first whose position is the
\* selected cell; 0 if there is none
widget_at_selected_cell(this) ==
    LET found == {i \in 1..Len(this.config.widgets) :
                    /\ this.selected_cell.some
                    /\ this.config.widgets[i].position.row = this.selected_cell.v[1]
                    /\ this.config.widgets[i].position.col = this.selected_cell.v[2]}
    IN  IF found = {} THEN 0 ELSE CHOOSE i \in found : \A j \in found : i <= j

\* enter_label_edit without the test for a widget
enter_label_edit_unguarded(this) == [this EXCEPT !.mode = "LabelEdit"]

\* App::enter_label_edit
enter_label_edit(this) ==
    IF widget_at_selected_cell(this) # 0
    THEN [this EXCEPT
            !.label_edit = this.config.widgets[widget_at_selected_cell(this)].label,
            !.mode = "LabelEdit"]
    ELSE this

\* App::exit_label_edit
exit_label_edit(this) == [this EXCEPT !.mode = "CellConfig"]

\* App::save_label
save_label(this) ==
    exit_label_edit(
        IF widget_at_selected_cell(this) # 0
        THEN [this EXCEPT
                !.config.widgets[widget_at_selected_cell(this)].label = this.label_edit]
        ELSE this)

\* App::enter_fuzzy_search: the possible results
enter_fuzzy_search(this) ==
    {[this EXCEPT !.mode = "FuzzySearch", !.fuzzy_search = fs] :
        fs \in update_matches(this.fuzzy_search, this.available_topics)}

\* App::exit_fuzzy_search
exit_fuzzy_search(this) ==
    [this EXCEPT !.mode = "Main", !.fuzzy_search.input = <<>>]

\* Config::add_widget
add_widget(this, widget) ==
    [this EXCEPT !.config.widgets = Append(this.config.widgets, widget)]

\* App::handle_search_selection
handle_search_selection(this) ==
    IF get_selected(this.fuzzy_search).some
    THEN LET selected_topic == get_selected(this.fuzzy_search).v IN
         IF this.mode = "CellConfig" /\ widget_at_selected_cell(this) # 0
         THEN exit_cell_config(exit_fuzzy_search(
                 [this EXCEPT
                    !.config.widgets[widget_at_selected_cell(this)].topic =
                        selected_topic]))
         ELSE exit_fuzzy_search(add_widget(this,
                 Widget(selected_topic, selected_topic,
                        find_next_grid_position(this))))
    ELSE this

\* String::pop
pop(s) == IF s = <<>> THEN s ELSE SubSeq(s, 1, Len(s) - 1)

\* the KV arm of the NT update loop without the test of `paused`
recv_kv_ignoring_pause(this, key, value) ==
    LET a == [this EXCEPT !.values[key] = Some(value),
                          !.connection_status = "Connected",
                          !.available_topics = this.available_topics \cup {key}]
    IN  IF a.mode = "FuzzySearch"
        THEN {[a EXCEPT !.fuzzy_search = fs] :
                 fs \in update_matches(a.fuzzy_search, a.available_topics)}
        ELSE {a}

\* the KV arm of the NT update loop of run_ui: the possible results
recv_kv(this, key, value) ==
    LET a == [this EXCEPT
                !.values[key] = IF this.paused THEN this.values[key] ELSE Some(value),
                !.connection_status = "Connected",
                !.available_topics = this.available_topics \cup {key}]
    IN  IF a.mode = "FuzzySearch"
        THEN {[a EXCEPT !.fuzzy_search = fs] :
                 fs \in update_matches(a.fuzzy_search, a.available_topics)}
        ELSE {a}

\* the ConnectionStatus arm of the NT update loop
recv_connection_status(this, status) == [this EXCEPT !.connection_status = status]

\* the characters typed into the search input and the label editor
TypedChars == {"a"}

\* keys without a binding in each mode
UnboundKeys(mode) ==
    CASE mode = "Main" -> {"Esc", "s", "Tab"}
      [] mode = "CellConfig" -> {"a", "Enter", "Tab"}
      [] mode = "FuzzySearch" -> {"Tab"}
      [] mode = "LabelEdit" -> {"Tab", "Up"}

-----------------------------------------------------------------------------
(* The caller.                                                             *)

Init ==
    /\ call = <<>>
    /\ arg = None
    /\ ret = None
    /\ app = App_new
    /\ pc = "draw"
    /\ entered_from = "Main"

\* DataType::from_id(id)
CallFromId ==
    /\ call = <<>>
    /\ \E id \in IdInputs :
        /\ call' = <<"from_id">>
        /\ arg' = id
        /\ ret' = from_id(id)
    /\ UNCHANGED ui_vars

\* ... .as_id() on the DataType that from_id returned
ThenAsId ==
    /\ call = <<"from_id">>
    /\ ret.some
    /\ call' = <<"from_id", "as_id">>
    /\ ret' = as_id(ret.v)
    /\ UNCHANGED arg
    /\ UNCHANGED ui_vars

\* d.as_id()
CallAsId ==
    /\ call = <<>>
    /\ \E d \in DataTypeInputs :
        /\ call' = <<"as_id">>
        /\ arg' = d
        /\ ret' = as_id(d)
    /\ UNCHANGED ui_vars

\* DataType::from_id on the id that as_id returned
ThenFromId ==
    /\ call = <<"as_id">>
    /\ call' = <<"as_id", "from_id">>
    /\ ret' = from_id(ret)
    /\ UNCHANGED arg
    /\ UNCHANGED ui_vars

\* DataType::deserialize on what the data format holds
CallDeserialize ==
    /\ call = <<>>
    /\ \E input \in DeserializerInputs :
        /\ call' = <<"deserialize">>
        /\ arg' = input
        /\ ret' = deserialize(input)
    /\ UNCHANGED ui_vars

\* ... .serialize() on the DataType that deserialize returned
ThenSerialize ==
    /\ call = <<"deserialize">>
    /\ ret.ok
    /\ call' = <<"deserialize", "serialize">>
    /\ ret' = serialize(ret.v)
    /\ UNCHANGED arg
    /\ UNCHANGED ui_vars

\* T::from_value(&value) on a wire value received from the network
CallFromValue ==
    /\ call = <<>>
    /\ \E T \in ScalarTypes, value \in WireValues :
        /\ call' = <<"from_value">>
        /\ arg' = [ty |-> T, value |-> value]
        /\ ret' = from_value(T, value)
    /\ UNCHANGED ui_vars

\* value.into_value() on a value of type T
CallIntoValue ==
    /\ call = <<>>
    /\ \E T \in ScalarTypes :
        \E value \in ValuesOf(T) :
            /\ call' = <<"into_value">>
            /\ arg' = [ty |-> T, value |-> value]
            /\ ret' = into_value(T, value)
    /\ UNCHANGED ui_vars

\* T::from_value on the wire value that into_value returned
ThenFromValue ==
    /\ call = <<"into_value">>
    /\ call' = <<"into_value", "from_value">>
    /\ ret' = from_value(arg.ty, ret)
    /\ UNCHANGED arg
    /\ UNCHANGED ui_vars

\* <Vec<T>>::from_value(&value)
CallVecFromValue ==
    /\ call = <<>>
    /\ \E T \in ScalarTypes, value \in ArrayDecoderInputs :
        /\ call' = <<"Vec::from_value">>
        /\ arg' = [ty |-> T, value |-> value]
        /\ ret' = vec_from_value(T, value)
    /\ UNCHANGED ui_vars

\* xs.into_value() on a Vec<T>
CallVecIntoValue ==
    /\ call = <<>>
    /\ \E T \in ScalarTypes :
        \E xs \in SeqsUpTo(VecElems(T)) :
            /\ call' = <<"Vec::into_value">>
            /\ arg' = [ty |-> T, value |-> xs]
            /\ ret' = vec_into_value(T, xs)
    /\ UNCHANGED ui_vars

\* <Vec<T>>::from_value on the wire array that into_value returned
ThenVecFromValue ==
    /\ call = <<"Vec::into_value">>
    /\ call' = <<"Vec::into_value", "Vec::from_value">>
    /\ ret' = vec_from_value(arg.ty, ret)
    /\ UNCHANGED arg
    /\ UNCHANGED ui_vars

\* W::from_value(&value) for a byte wrapper W
CallBytesFromValue ==
    /\ call = <<>>
    /\ \E W \in ByteWrappers, value \in ArrayDecoderInputs :
        /\ call' = <<"bytes::from_value">>
        /\ arg' = [ty |-> W, value |-> value]
        /\ ret' = bytes_from_value(W, value)
    /\ UNCHANGED ui_vars

\* W(bs).into_value() for a byte wrapper W
CallBytesIntoValue ==
    /\ call = <<>>
    /\ \E W \in ByteWrappers, bs \in ByteSeqs :
        /\ call' = <<"bytes::into_value">>
        /\ arg' = [ty |-> W, value |-> Wrapper(W, bs)]
        /\ ret' = bytes_into_value(W, Wrapper(W, bs))
    /\ UNCHANGED ui_vars

\* W::from_value on the wire array that into_value returned
ThenBytesFromValue ==
    /\ call = <<"bytes::into_value">>
    /\ call' = <<"bytes::into_value", "bytes::from_value">>
    /\ ret' = bytes_from_value(arg.ty, ret)
    /\ UNCHANGED arg
    /\ UNCHANGED ui_vars

\* W(bs).into(): the wrapper's Into<rmpv::Value>
CallBytesInto ==
    /\ call = <<>>
    /\ \E W \in ByteWrappers, bs \in ByteSeqs :
        /\ call' = <<"bytes::into">>
        /\ arg' = [ty |-> W, value |-> Wrapper(W, bs)]
        /\ ret' = transparent_into(Wrapper(W, bs))
    /\ UNCHANGED ui_vars

\* W::from_value on the wire value that into() returned
ThenBytesFromInto ==
    /\ call = <<"bytes::into">>
    /\ call' = <<"bytes::into", "bytes::from_value">>
    /\ ret' = bytes_from_value(arg.ty, ret)
    /\ UNCHANGED arg
    /\ UNCHANGED ui_vars

\* JsonString::from_value(&value) and rmpv::Value::from_value(&value)
CallTransparentFromValue ==
    /\ call = <<>>
    /\ \E T \in TransparentTypes, value \in WireValues \cup WireArrays :
        /\ call' = <<"transparent::from_value">>
        /\ arg' = [ty |-> T, value |-> value]
        /\ ret' = transparent_from_value(T, value)
    /\ UNCHANGED ui_vars

\* JsonString(s).into_value() and w.into_value() for a wire value w
CallTransparentIntoValue ==
    /\ call = <<>>
    /\ \E T \in TransparentTypes :
        \E this \in IF T = "JsonString"
                     THEN {JsonString(t) : t \in StringSamples}
                     ELSE WireValues \cup WireArrays :
            /\ call' = <<"transparent::into_value">>
            /\ arg' = [ty |-> T, value |-> this]
            /\ ret' = transparent_into_value(T, this)
    /\ UNCHANGED ui_vars

\* T::data_type() and Vec<T>::data_type()
CallDataType ==
    /\ call = <<>>
    /\ \E T \in ScalarTypes \cup TransparentTypes \cup ByteWrappers,
          vec \in BOOLEAN :
        /\ vec => T \in ScalarTypes
        /\ call' = <<"data_type">>
        /\ arg' = [ty |-> T, vec |-> vec]
        /\ ret' = IF vec THEN vec_data_type(T) ELSE data_type(T)
    /\ UNCHANGED ui_vars

\* ... .as_id() on the DataType that data_type returned
ThenDataTypeAsId ==
    /\ call = <<"data_type">>
    /\ call' = <<"data_type", "as_id">>
    /\ ret' = as_id(ret)
    /\ UNCHANGED arg
    /\ UNCHANGED ui_vars

\* deserialize_u32 on what the data format holds
CallDeserializeU32 ==
    /\ call = <<>>
    /\ \E input \in WireIdInputs :
        /\ call' = <<"deserialize_u32">>
        /\ arg' = input
        /\ ret' = deserialize_u32(input)
    /\ UNCHANGED ui_vars

\* serialize_as_u32(&d, serializer)
CallSerializeAsU32 ==
    /\ call = <<>>
    /\ \E d \in DataTypeInputs :
        /\ call' = <<"serialize_as_u32">>
        /\ arg' = d
        /\ ret' = serialize_as_u32(d)
    /\ UNCHANGED ui_vars

\* deserialize_u32 on the integer that serialize_as_u32 wrote
ThenDeserializeU32 ==
    /\ call = <<"serialize_as_u32">>
    /\ call' = <<"serialize_as_u32", "deserialize_u32">>
    /\ ret' = deserialize_u32(ret)
    /\ UNCHANGED arg
    /\ UNCHANGED ui_vars

\* the caller drops the values of the finished call: they are call-scoped
Return ==
    /\ call # <<>>
    /\ call' = <<>>
    /\ arg' = None
    /\ ret' = None
    /\ UNCHANGED ui_vars
Next ==
    \/ CallFromId
    \/ ThenAsId
    \/ CallAsId
    \/ ThenFromId
    \/ CallDeserialize
    \/ ThenSerialize
    \/ CallFromValue
    \/ CallIntoValue
    \/ ThenFromValue
    \/ CallVecFromValue
    \/ CallVecIntoValue
    \/ ThenVecFromValue
    \/ CallBytesFromValue
    \/ CallBytesIntoValue
    \/ ThenBytesFromValue
    \/ CallBytesInto
    \/ ThenBytesFromInto
    \/ CallTransparentFromValue
    \/ CallTransparentIntoValue
    \/ CallDataType
    \/ ThenDataTypeAsId
    \/ CallDeserializeU32
    \/ CallSerializeAsU32
    \/ ThenDeserializeU32
    \/ Return

Spec == Init /\ [][Next]_vars

-----------------------------------------------------------------------------
(* run_ui: the loop draws, polls for one key, drains the NT channel.       *)

\* the top of the loop, at the start and whenever the NT channel is found
\* empty: terminal.draw(|f| ui(f, &mut app)) sets max_rows from the height
\* of the terminal
Draw ==
    /\ pc \in {"draw", "recv"}
    /\ \E rows \in 0..MaxRows : app' = [app EXCEPT !.max_rows = rows]
    /\ pc' = "poll"
    /\ UNCHANGED <<entered_from, codec_vars>>

\* event::poll(timeout) returns false
NoKey ==
    /\ pc = "poll"
    /\ pc' = "recv"
    /\ UNCHANGED <<app, entered_from, codec_vars>>

\* 'q' in Main: break
KeyQuit ==
    /\ pc = "poll" /\ app.mode = "Main"
    /\ app' = app
    /\ pc' = "quit"
    /\ UNCHANGED <<entered_from, codec_vars>>

\* 'a' in Main, 's' in CellConfig: enter_fuzzy_search
KeyEnterFuzzySearch ==
    /\ pc = "poll" /\ app.mode \in {"Main", "CellConfig"}
    /\ app' \in enter_fuzzy_search(app)
    /\ entered_from' = app.mode
    /\ pc' = "recv"
    /\ UNCHANGED codec_vars

\* ' ' in Main: toggle_pause
KeyTogglePause ==
    /\ pc = "poll" /\ app.mode = "Main"
    /\ app' = toggle_pause(app)
    /\ pc' = "recv"
    /\ UNCHANGED <<entered_from, codec_vars>>

\* 'h', 'j', 'k', 'l' in Main: move_selection
KeyMoveSelection ==
    /\ pc = "poll" /\ app.mode = "Main"
    /\ \E key \in {"h", "j", "k", "l"} :
        /\ app' = move_selection(app,
                      CASE key = "j" -> 1 [] key = "k" -> 0 - 1 [] OTHER -> 0,
                      CASE key = "l" -> 1 [] key = "h" -> 0 - 1 [] OTHER -> 0)
    /\ pc' = "recv"
    /\ UNCHANGED <<entered_from, codec_vars>>

\* the same keys when `self.max_rows - 1` overflows and overflow checks are
\* compiled in: the thread panics inside move_selection
KeyMoveSelectionPanics ==
    /\ pc = "poll" /\ app.mode = "Main"
    /\ move_selection_overflows(app)
    /\ \E key \in {"h", "j", "k", "l"} :
        /\ app' = app
    /\ pc' = "panicked"
    /\ UNCHANGED <<entered_from, codec_vars>>

\* Enter in Main: enter_cell_config
KeyEnterCellConfig ==
    /\ pc = "poll" /\ app.mode = "Main"
    /\ app' = enter_cell_config(app)
    /\ pc' = "recv"
    /\ UNCHANGED <<entered_from, codec_vars>>

\* Esc in CellConfig: exit_cell_config
KeyExitCellConfig ==
    /\ pc = "poll" /\ app.mode = "CellConfig"
    /\ app' = exit_cell_config(app)
    /\ pc' = "recv"
    /\ UNCHANGED <<entered_from, codec_vars>>

\* 'l' in CellConfig: enter_label_edit
KeyEnterLabelEdit ==
    /\ pc = "poll" /\ app.mode = "CellConfig"
    /\ app' = enter_label_edit(app)
    /\ pc' = "recv"
    /\ UNCHANGED <<entered_from, codec_vars>>

\* Esc in FuzzySearch: exit_fuzzy_search
KeyExitFuzzySearch ==
    /\ pc = "poll" /\ app.mode = "FuzzySearch"
    /\ app' = exit_fuzzy_search(app)
    /\ pc' = "recv"
    /\ entered_from' = "Main"
    /\ UNCHANGED codec_vars

\* Up, Ctrl-k, Down, Ctrl-j in FuzzySearch: fuzzy_search.move_selection
KeyFuzzyMove ==
    /\ pc = "poll" /\ app.mode = "FuzzySearch"
    /\ \E key \in {"Up", "Ctrl-k", "Down", "Ctrl-j"} :
        /\ app' = [app EXCEPT !.fuzzy_search =
                      fuzzy_move_selection(app.fuzzy_search,
                          IF key \in {"Up", "Ctrl-k"} THEN 0 - 1 ELSE 1)]
    /\ pc' = "recv"
    /\ UNCHANGED <<entered_from, codec_vars>>

\* Enter in FuzzySearch: handle_search_selection
KeySearchSelection ==
    /\ pc = "poll" /\ app.mode = "FuzzySearch"
    /\ app' = handle_search_selection(app)
    /\ Len(app'.config.widgets) <= MaxWidgets
    /\ pc' = "recv"
    /\ entered_from' = "Main"
    /\ UNCHANGED codec_vars

\* Backspace in FuzzySearch: input.pop(), update_matches
KeySearchBackspace ==
    /\ pc = "poll" /\ app.mode = "FuzzySearch"
    /\ \E fs \in update_matches(
                    [app.fuzzy_search EXCEPT !.input = pop(app.fuzzy_search.input)],
                    app.available_topics) :
        app' = [app EXCEPT !.fuzzy_search = fs]
    /\ pc' = "recv"
    /\ UNCHANGED <<entered_from, codec_vars>>

\* a character in FuzzySearch: input.push(c), update_matches
KeySearchChar ==
    /\ pc = "poll" /\ app.mode = "FuzzySearch"
    /\ Len(app.fuzzy_search.input) < MaxInputLen
    /\ \E c \in TypedChars :
        /\ \E fs \in update_matches(
                        [app.fuzzy_search EXCEPT !.input = Append(app.fuzzy_search.input, c)],
                        app.available_topics) :
            app' = [app EXCEPT !.fuzzy_search = fs]
    /\ pc' = "recv"
    /\ UNCHANGED <<entered_from, codec_vars>>

\* Esc in LabelEdit: exit_label_edit
KeyExitLabelEdit ==
    /\ pc = "poll" /\ app.mode = "LabelEdit"
    /\ app' = exit_label_edit(app)
    /\ pc' = "recv"
    /\ UNCHANGED <<entered_from, codec_vars>>

\* Enter in LabelEdit: save_label
KeySaveLabel ==
    /\ pc = "poll" /\ app.mode = "LabelEdit"
    /\ app' = save_label(app)
    /\ pc' = "recv"
    /\ UNCHANGED <<entered_from, codec_vars>>

\* Backspace in LabelEdit: label_edit.pop()
KeyLabelBackspace ==
    /\ pc = "poll" /\ app.mode = "LabelEdit"
    /\ app' = [app EXCEPT !.label_edit = pop(app.label_edit)]
    /\ pc' = "recv"
    /\ UNCHANGED <<entered_from, codec_vars>>

\* a character in LabelEdit: label_edit.push(c)
KeyLabelChar ==
    /\ pc = "poll" /\ app.mode = "LabelEdit"
    /\ Len(app.label_edit) < MaxLabelLen
    /\ \E c \in TypedChars :
        /\ app' = [app EXCEPT !.label_edit = Append(app.label_edit, c)]
    /\ pc' = "recv"
    /\ UNCHANGED <<entered_from, codec_vars>>

\* a key that the mode does not bind: `_ => {}`
KeyUnbound ==
    /\ pc = "poll"
    /\ \E key \in UnboundKeys(app.mode) :
        /\ app' = app
    /\ pc' = "recv"
    /\ UNCHANGED <<entered_from, codec_vars>>

\* receiver.try_recv() returns NtUpdate::KV(key, value)
RecvKV ==
    /\ pc = "recv"
    /\ \E key \in Topics, value \in Values :
        /\ app' \in recv_kv(app, key, value)
    /\ UNCHANGED <<pc, entered_from, codec_vars>>

\* receiver.try_recv() returns NtUpdate::ConnectionStatus(status)
RecvConnectionStatus ==
    /\ pc = "recv"
    /\ \E status \in {"Connected", "Connecting", "Disconnected"} :
        /\ app' = recv_connection_status(app, status)
    /\ UNCHANGED <<pc, entered_from, codec_vars>>

NextUI ==
    \/ Draw
    \/ NoKey
    \/ KeyQuit
    \/ KeyEnterFuzzySearch
    \/ KeyTogglePause
    \/ KeyMoveSelection
    \/ KeyMoveSelectionPanics
    \/ KeyEnterCellConfig
    \/ KeyExitCellConfig
    \/ KeyEnterLabelEdit
    \/ KeyExitFuzzySearch
    \/ KeyFuzzyMove
    \/ KeySearchSelection
    \/ KeySearchBackspace
    \/ KeySearchChar
    \/ KeyExitLabelEdit
    \/ KeySaveLabel
    \/ KeyLabelBackspace
    \/ KeyLabelChar
    \/ KeyUnbound
    \/ RecvKV
    \/ RecvConnectionStatus

SpecUI == Init /\ [][NextUI]_vars

-----------------------------------------------------------------------------
(* Claims about the numeric-id mapping.                                    *)

\* the ids of the canonical table
CanonicalIds ==
    { Small(0), Small(1), Small(2), Small(3), Small(4), Small(5),
      Small(16), Small(17), Small(18), Small(19), Small(20) }

\* C1: for every id in {0,1,2,3,4,5,16,17,18,19,20}, from_id(id) is Some(d)
\* and d.as_id() gives the id back.
C1_FromIdThenAsId ==
    /\ (call = <<"from_id">> /\ arg \in CanonicalIds) => ret.some
    /\ (call = <<"from_id", "as_id">> /\ arg \in CanonicalIds) => ret = arg

C1_Witness ==
    call = <<"from_id", "as_id">> /\ arg = Small(20) /\ ret = Small(20)

\* C2: for every u32 id outside {0,1,2,3,4,5,16,17,18,19,20}, 6, 21 and
\* u32::MAX included, from_id(id) is None.
C2_FromIdNoneOutsideTable ==
    (call = <<"from_id">> /\ arg \notin CanonicalIds) => ret = None

C2_Witness ==
    call = <<"from_id">> /\ arg \in {Small(6), Small(21), U32_MAX} /\ ret = None

\* the id that the canonical table gives each variant
TableId(d) ==
    CASE d.tag = "Boolean" -> Small(0)
      [] d.tag = "Double" -> Small(1)
      [] d.tag = "Int" -> Small(2)
      [] d.tag = "Float" -> Small(3)
      [] d.tag \in {"String", "Json"} -> Small(4)
      [] d.tag \in {"Raw", "Rpc", "Msgpack", "Protobuf"} -> Small(5)
      [] d.tag = "BooleanArray" -> Small(16)
      [] d.tag = "DoubleArray" -> Small(17)
      [] d.tag = "IntArray" -> Small(18)
      [] d.tag = "FloatArray" -> Small(19)
      [] d.tag = "StringArray" -> Small(20)
      [] d.tag \in {"StructSchema", "Struct", "Other"} -> U32_MAX

\* C3: as_id is total and follows the canonical table; StructSchema, every
\* Struct(name) and every Other(raw) map to the sentinel u32::MAX.
C3_AsIdFollowsTable ==
    call = <<"as_id">> => ret = TableId(arg)

C3_Witness ==
    /\ call = <<"as_id">>
    /\ arg.tag = "Struct" /\ arg.name # <<>>
    /\ ret = U32_MAX

\* the variant that shares its id with d and that from_id resolves to
CanonicalOf(d) ==
    CASE d.tag = "Json" -> D_String
      [] d.tag \in {"Rpc", "Msgpack", "Protobuf"} -> D_Raw
      [] OTHER -> d

AliasTags == {"Json", "Rpc", "Msgpack", "Protobuf"}
NoIdTags == {"Struct", "StructSchema", "Other"}

\* C4: from_id never returns Json, Rpc, Msgpack, Protobuf, Struct,
\* StructSchema or Other; id 4 resolves to String and id 5 to Raw, so for an
\* alias variant d, from_id(d.as_id()) is the canonical variant of its id.
C4_FromIdOntoCanonicalSubset ==
    /\ (call = <<"from_id">> /\ ret.some) =>
           ret.v.tag \notin AliasTags \cup NoIdTags
    /\ (call = <<"from_id">> /\ arg = Small(4)) => ret = Some(D_String)
    /\ (call = <<"from_id">> /\ arg = Small(5)) => ret = Some(D_Raw)
    /\ (call = <<"as_id", "from_id">> /\ arg.tag \in AliasTags) =>
           ret = Some(CanonicalOf(arg)) /\ ret # Some(arg)

C4_Witness ==
    call = <<"as_id", "from_id">> /\ arg = D_Msgpack /\ ret = Some(D_Raw)

-----------------------------------------------------------------------------
(* Claims about the textual-token mapping.                                 *)

\* C5: for every name, the empty one and those that begin with "struct:"
\* included, decoding "struct:" followed by the name yields Struct(name):
\* exactly one leading "struct:" is stripped, the rest is kept unchanged.
C5_StructPrefixStrippedOnce ==
    (call = <<"deserialize">> /\ arg.kind = "str"
        /\ starts_with(arg.s, STRUCT_PREFIX)) =>
        ret = Ok(D_Struct(SubSeq(arg.s, Len(STRUCT_PREFIX) + 1, Len(arg.s))))

\* C6: decoding a fixed token or a "struct:<name>" token and serializing the
\* DataType obtained yields the original token.
C6_TokenRoundTrip ==
    (call = <<"deserialize", "serialize">> /\ arg.kind = "str"
        /\ (arg.s \in FixedTokens \/ starts_with(arg.s, STRUCT_PREFIX))) =>
        ret = arg

\* the token table of the specification
TokenTable ==
    { <<T_boolean, D_Boolean>>, <<T_double, D_Double>>, <<T_int, D_Int>>,
      <<T_float, D_Float>>, <<T_string, D_String>>, <<T_json, D_Json>>,
      <<T_raw, D_Raw>>, <<T_rpc, D_Rpc>>, <<T_msgpack, D_Msgpack>>,
      <<T_protobuf, D_Protobuf>>, <<T_boolean_arr, D_BooleanArray>>,
      <<T_double_arr, D_DoubleArray>>, <<T_int_arr, D_IntArray>>,
      <<T_float_arr, D_FloatArray>>, <<T_string_arr, D_StringArray>>,
      <<T_structschema, D_StructSchema>> }

\* C7: each fixed token decodes to its variant of the table, and two
\* distinct fixed tokens decode to distinct variants.
C7_FixedTokensDecodeAsTabled ==
    (call = <<"deserialize">> /\ arg.kind = "str" /\ arg.s \in FixedTokens) =>
        /\ ret.ok
        /\ <<arg.s, ret.v>> \in TokenTable
        /\ \A t \in FixedTokens \ {arg.s} : deserialize(Str(t)) # ret

C7_Witness ==
    /\ call = <<"deserialize">>
    /\ arg = Str(T_structschema)
    /\ ret = Ok(D_StructSchema)

\* C8: decoding a token string never fails; a token that is no fixed token
\* (letter case counts) and does not start with "struct:" decodes to
\* Other(token) with the token unchanged, so the raw of a decoded Other
\* neither starts with "struct:" nor is a fixed token.
C8_UnknownTokenIsOther ==
    (call = <<"deserialize">> /\ arg.kind = "str") =>
        /\ ret.ok
        /\ (arg.s \notin FixedTokens /\ ~starts_with(arg.s, STRUCT_PREFIX)) =>
               ret.v = D_Other(arg.s)
        /\ ret.v.tag = "Other" =>
               /\ ~starts_with(ret.v.raw, STRUCT_PREFIX)
               /\ ret.v.raw \notin FixedTokens

C8_Witness ==
    /\ call = <<"deserialize">>
    /\ arg = Str(VariantName(D_Boolean))
    /\ ret = Ok(D_Other(VariantName(D_Boolean)))

-----------------------------------------------------------------------------
(* Claims about the scalar codec.                                          *)

\* n lies in the range of the integer type T
InRange(T, n) == IntLeq(IntMin(T), n) /\ IntLeq(n, IntMax(T))

\* C9: for every integer type T and every wire integer n in [-2^63, 2^64),
\* T::from_value is Some(n) if and only if n lies in the range of T; it
\* never wraps or truncates.
C9_IntegerNarrowing ==
    (call = <<"from_value">> /\ arg.ty \in IntTypes
        /\ arg.value.kind = "Integer") =>
        ret = IF InRange(arg.ty, arg.value.n) THEN Some(arg.value.n) ELSE None

C9_Witness ==
    /\ call = <<"from_value">>
    /\ arg.ty = "u8"
    /\ arg.value = V_Integer(Small(300))
    /\ ret = None

\* a == b as PartialEq decides it for values of type T: a NaN equals
\* nothing, the two zeros are equal
ValueEq(T, a, b) ==
    IF T \in {"f32", "f64"}
    THEN /\ a.cls # "nan"
         /\ b.cls # "nan"
         /\ (a = b \/ (a.cls = "zero" /\ b.cls = "zero"))
    ELSE a = b

\* a == b for a, b: Option<T>
OptionEq(T, a, b) ==
    IF a.some /\ b.some THEN ValueEq(T, a.v, b.v) ELSE a.some = b.some

IsNaN(T, v) == T \in {"f32", "f64"} /\ v.cls = "nan"

\* C10 as stated: for every scalar type T and every value v of T,
\* T::from_value(&v.into_value()) == Some(v).
C10_ScalarRoundTripEveryValue ==
    call = <<"into_value", "from_value">> =>
        OptionEq(arg.ty, ret, Some(arg.value))

\* C10 as amended: the round trip returns Some(v) for every value v of T
\* other than a floating-point NaN; for a NaN it returns Some of a NaN,
\* which == does not equate with v.
C10_ScalarRoundTrip ==
    call = <<"into_value", "from_value">> =>
        IF IsNaN(arg.ty, arg.value)
        THEN ret = Some(F_NaN) /\ ~OptionEq(arg.ty, ret, Some(arg.value))
        ELSE OptionEq(arg.ty, ret, Some(arg.value)) /\ ret = Some(arg.value)

C10_Witness ==
    /\ call = <<"into_value", "from_value">>
    /\ arg.ty = "u64"
    /\ arg.value = IntMax("u64")
    /\ ret = Some(IntMax("u64"))

-----------------------------------------------------------------------------
(* Claims about shape mismatch, arrays and byte wrappers.                  *)

\* the kinds of wire value that the claim expects each scalar type to take
ExpectedKinds(T) ==
    CASE T = "bool" -> {"Boolean"}
      [] T \in {"f64", "f32"} -> {"F32", "F64"}
      [] T \in IntTypes -> {"Integer"}
      [] T = "String" -> {"String"}

\* C11: for every scalar type T, from_value returns None for every wire
\* value whose kind is not T's expected kind (boolean for bool, floating
\* point for f64 and f32, integer for the integer types, string for String);
\* in particular f64 is not decoded from a wire integer.
C11_ShapeMismatchIsNone ==
    (call = <<"from_value">> /\ arg.value.kind \notin ExpectedKinds(arg.ty))
        => ret = None

\* C12: Vec<T>::from_value is None if the wire value is no array; otherwise
\* it is Some(list) exactly when every element decodes with T's scalar rule,
\* the list holding the decoded elements in the order of the wire array, and
\* None as soon as one element fails; no partial list is returned.
C12_ArrayAllOrNothing ==
    call = <<"Vec::from_value">> =>
        IF arg.value.kind # "Array" THEN ret = None
        ELSE LET items == arg.value.items
                 each == [i \in 1..Len(items) |-> from_value(arg.ty, items[i])]
             IN  IF \A i \in 1..Len(items) : each[i].some
                 THEN /\ ret.some
                      /\ Len(ret.v) = Len(items)
                      /\ \A i \in 1..Len(items) : ret.v[i] = each[i].v
                 ELSE ret = None

C12_Witness ==
    /\ call = <<"Vec::from_value">>
    /\ arg.ty = "i32"
    /\ arg.value = V_Array(<<V_Integer(Small(1)), V_Integer(Small(2)),
                             V_String(T_oops, TRUE)>>)
    /\ ret = None

\* C13: for every Vec<T> xs, xs.into_value() is a wire array of length
\* len(xs) whose i-th element is the scalar encoding of xs[i], and decoding
\* it back as Vec<T> yields Some(xs), element for element the value that
\* went in (a NaN comes back as a NaN).
C13_ArrayEncodeKeepsOrder ==
    /\ call = <<"Vec::into_value">> =>
        /\ ret.kind = "Array"
        /\ Len(ret.items) = Len(arg.value)
        /\ \A i \in 1..Len(arg.value) :
              ret.items[i] = into_value(arg.ty, arg.value[i])
    /\ call = <<"Vec::into_value", "Vec::from_value">> =>
        /\ ret.some
        /\ Len(ret.v) = Len(arg.value)
        /\ \A i \in 1..Len(arg.value) : ret.v[i] = arg.value[i]

C13_Witness ==
    /\ call = <<"Vec::into_value", "Vec::from_value">>
    /\ arg.ty = "i16"
    /\ arg.value = <<IntMin("i16"), Small(1), IntMax("i16")>>
    /\ ret = Some(arg.value)

\* a wire integer in 0..=255
IsByte(value) == value.kind = "Integer" /\ InRange("u8", value.n)

\* C14: for RawData, Rpc and Protobuf, from_value is Some exactly when the
\* wire value is an array whose every element is a wire integer in 0..=255:
\* one element outside that range or of another kind makes the decode None,
\* and a wire binary blob, being no array, decodes to None.
C14_BytesDecodeNeedsByteArray ==
    call = <<"bytes::from_value">> =>
        (ret.some <=>
            (/\ arg.value.kind = "Array"
             /\ \A i \in 1..Len(arg.value.items) : IsByte(arg.value.items[i])))

C14_Witness ==
    /\ call = <<"bytes::from_value">>
    /\ arg.ty = "Rpc"
    /\ arg.value = V_Array(<<V_Integer(Small(1)), V_Integer(Small(256))>>)
    /\ ret = None

\* C15: for every byte sequence bs and W in RawData, Rpc, Protobuf,
\* W(bs).into_value() is a wire array of len(bs) wire integers, the i-th
\* equal to bs[i], and W::from_value of that array yields W(bs).
C15_BytesRoundTrip ==
    /\ call = <<"bytes::into_value">> =>
        /\ ret.kind = "Array"
        /\ Len(ret.items) = Len(arg.value.inner)
        /\ \A i \in 1..Len(arg.value.inner) :
              ret.items[i] = V_Integer(arg.value.inner[i])
    /\ call = <<"bytes::into_value", "bytes::from_value">> =>
        /\ ret.some
        /\ ret.v.wrapper = arg.ty
        /\ Len(ret.v.inner) = Len(arg.value.inner)
        /\ \A i \in 1..Len(arg.value.inner) :
              ret.v.inner[i] = arg.value.inner[i]

C15_Witness ==
    /\ call = <<"bytes::into_value", "bytes::from_value">>
    /\ arg.value = RawData(<<Small(0), Small(1), Small(255)>>)
    /\ ret = Some(arg.value)

-----------------------------------------------------------------------------
(* Claims about the wire-id deserializer.                                  *)

\* C16: wire-id deserialization of a signed or unsigned 64-bit integer v
\* succeeds exactly when 0 <= v <= u32::MAX and from_id(v) is Some(d), and
\* then returns d; for a negative v, a v above u32::MAX and an id outside
\* the table it returns an error and no DataType.
C16_WireIdAcceptsTableIds ==
    (call = <<"deserialize_u32">> /\ arg.kind \in {"i64", "u64"}) =>
        IF InRange("u32", arg.n) /\ from_id(arg.n).some
        THEN ret = Ok(from_id(arg.n).v)
        ELSE ~ret.ok

C16_Witness ==
    /\ call = <<"deserialize_u32">>
    /\ arg = [kind |-> "i64", n |-> Small(99)]
    /\ ~ret.ok

\* sub occurs in s
Contains(s, sub) ==
    \E i \in 0..(Len(s) - Len(sub)) : SubSeq(s, i + 1, i + Len(sub)) = sub

\* C17: whenever wire-id deserialization of an integer v fails, because
\* narrowing to u32 fails or because from_id finds no match, the error
\* message names v in decimal.
C17_ErrorNamesValue ==
    (call = <<"deserialize_u32">> /\ arg.kind \in {"i64", "u64"} /\ ~ret.ok)
        => Contains(ret.err, Decimal(arg.n))

-----------------------------------------------------------------------------
(* Claims about JsonString, the opaque Msgpack value and data_type().      *)

\* C18: JsonString(s).into_value() equals s.into_value(), and for every
\* wire value w JsonString::from_value(w) is Some(JsonString(s)) exactly
\* when String::from_value(w) is Some(s); the data types are Json and String.
C18_JsonSameWireShape ==
    /\ (call = <<"transparent::into_value">> /\ arg.ty = "JsonString") =>
        ret = into_value("String", arg.value.inner)
    /\ (call = <<"transparent::from_value">> /\ arg.ty = "JsonString") =>
        IF from_value("String", arg.value).some
        THEN ret = Some(JsonString(from_value("String", arg.value).v))
        ELSE ret = None
    /\ (call = <<"data_type">> /\ ~arg.vec /\ arg.ty = "JsonString") =>
        ret.tag = "Json"
    /\ (call = <<"data_type">> /\ ~arg.vec /\ arg.ty = "String") =>
        ret.tag = "String"

C18_Witness ==
    /\ call = <<"transparent::from_value">>
    /\ arg.ty = "JsonString"
    /\ arg.value = V_String(T_banana, TRUE)
    /\ ret = Some(JsonString(T_banana))

\* C19: for every wire value w of any kind, nil, maps and nested arrays
\* included, rmpv::Value::from_value(&w) is Some(w) and w.into_value() is w;
\* the data type is Msgpack.
C19_MsgpackIdentity ==
    /\ (call = <<"transparent::from_value">> /\ arg.ty = "rmpv::Value") =>
        ret = Some(arg.value)
    /\ (call = <<"transparent::into_value">> /\ arg.ty = "rmpv::Value") =>
        ret = arg.value
    /\ (call = <<"data_type">> /\ arg.ty = "rmpv::Value") =>
        ret.tag = "Msgpack"

C19_Witness ==
    /\ call = <<"transparent::from_value">>
    /\ arg.ty = "rmpv::Value"
    /\ arg.value.kind = "Map"
    /\ arg.value.entries # <<>>
    /\ ret = Some(arg.value)

\* the variant that the table of the claim gives each concrete type
ScalarVariant(T) ==
    CASE T = "bool" -> "Boolean"
      [] T = "f64" -> "Double"
      [] T \in {"i8", "i16", "i32", "i64", "u8", "u16", "u32", "u64"} -> "Int"
      [] T = "f32" -> "Float"
      [] T = "String" -> "String"
      [] T = "JsonString" -> "Json"
      [] T = "RawData" -> "Raw"
      [] T = "Rpc" -> "Rpc"
      [] T = "Protobuf" -> "Protobuf"
      [] T = "rmpv::Value" -> "Msgpack"

\* the array variant that the table of the claim gives Vec<T>
ArrayVariant(T) ==
    CASE T = "bool" -> "BooleanArray"
      [] T = "f64" -> "DoubleArray"
      [] T \in {"i8", "i16", "i32", "i64", "u8", "u16", "u32", "u64"} -> "IntArray"
      [] T = "f32" -> "FloatArray"
      [] T = "String" -> "StringArray"

\* the wire id of each scalar variant that has an array counterpart
ScalarId(T) ==
    CASE ScalarVariant(T) = "Boolean" -> 0
      [] ScalarVariant(T) = "Double" -> 1
      [] ScalarVariant(T) = "Int" -> 2
      [] ScalarVariant(T) = "Float" -> 3
      [] ScalarVariant(T) = "String" -> 4

\* C20: data_type() is fixed per concrete type: Boolean, Double, Int (all
\* eight integer widths), Float, String, Json, Raw, Rpc, Protobuf for the
\* scalars and wrappers; Vec<T> has the array variant of T's variant, IntArray
\* for every integer width, Vec<u8> included; and the wire id of the array
\* type is the wire id of the scalar type plus 16.
C20_DataTypeTable ==
    /\ (call = <<"data_type">> /\ ~arg.vec) => ret.tag = ScalarVariant(arg.ty)
    /\ (call = <<"data_type">> /\ arg.vec) =>
        ret.tag = ArrayVariant(arg.ty)
    /\ (call = <<"data_type", "as_id">> /\ ~arg.vec /\ arg.ty \in ScalarTypes) =>
        ret = Small(ScalarId(arg.ty))
    /\ (call = <<"data_type", "as_id">> /\ arg.vec) =>
        ret = Small(ScalarId(arg.ty) + 16)

C20_Witness ==
    /\ call = <<"data_type", "as_id">>
    /\ arg = [ty |-> "u8", vec |-> TRUE]
    /\ ret = Small(18)

-----------------------------------------------------------------------------
(* Further claims about the id mapping and the codec.                      *)

C22_F32DecodeHasNoRangeCheck ==
    (call = <<"from_value">> /\ arg.ty = "f32") =>
        /\ ret.some <=> as_f64(arg.value).some
        /\ (arg.value.kind = "F64" /\ arg.value.x.cls = "fin"
              /\ arg.value.x.exp > F32_MAX_EXP)
            => ret = Some(F_Inf(arg.value.x.neg))

C22_Witness ==
    /\ call = <<"from_value">>
    /\ arg.ty = "f32"
    /\ arg.value = V_F64(F64(TRUE, 1023, 2^24 - 1, 2^29 - 1))
    /\ ret = Some(F_Inf(TRUE))

\* C23: for every DataType d, StructSchema, Struct(name) and Other(raw)
\* included, the integer written by serialize_as_u32(d) is accepted by
\* deserialize_u32, and the DataType read back has the as_id of d.
C23_WireIdRoundTrip ==
    call = <<"serialize_as_u32", "deserialize_u32">> =>
        ret.ok /\ as_id(ret.v) = as_id(arg)

\* C24: for every byte wrapper W and byte sequence bs, the wire value of
\* the wrapper's Into<rmpv::Value> equals the one of into_value, and
\* W::from_value of it returns the original bytes.
C24_EncodePathsAgree ==
    /\ call = <<"bytes::into">> => ret = bytes_into_value(arg.ty, arg.value)
    /\ call = <<"bytes::into", "bytes::from_value">> => ret = Some(arg.value)

-----------------------------------------------------------------------------
(* Claims about the dashboard UI, under SpecUI.                            *)

\* C25: when fuzzy search was entered from the cell-configuration popup
\* ('s' in CellConfig) with a widget at the selected cell, and a topic is
\* chosen with Enter, handle_search_selection sets that widget's topic to
\* the chosen topic and the number of widgets is unchanged.
C25_ChangeSourceUpdatesWidget ==
    [][(/\ KeySearchSelection
        /\ entered_from = "CellConfig"
        /\ widget_at_selected_cell(app) # 0
        /\ get_selected(app.fuzzy_search).some)
       => /\ Len(app'.config.widgets) = Len(app.config.widgets)
          /\ app'.config.widgets[widget_at_selected_cell(app)].topic =
                get_selected(app.fuzzy_search).v]_vars

\* two widgets cover a common grid cell
overlap(v, w) ==
    /\ v.position.row < w.position.row + w.position.row_span
    /\ w.position.row < v.position.row + v.position.row_span
    /\ v.position.col < w.position.col + w.position.col_span
    /\ w.position.col < v.position.col + v.position.col_span

\* C26: after any sequence of widget additions through
\* handle_search_selection, no two widgets cover the same grid cell.
C26_WidgetsNeverOverlap ==
    \A i, j \in 1..Len(app.config.widgets) :
        i # j => ~overlap(app.config.widgets[i], app.config.widgets[j])

\* C27: for every max_rows that a redraw can set, 0 included, a move by
\* h/j/k/l completes without integer underflow and leaves selected_cell =
\* Some((r, c)) with c <= 4 and r < max_rows (r = 0 when max_rows is 0).
C27_CursorStaysInGrid ==
    [][(KeyMoveSelection \/ KeyMoveSelectionPanics)
       => /\ pc' # "panicked"
          /\ app'.selected_cell.some
          /\ app'.selected_cell.v[2] >= 0 /\ app'.selected_cell.v[2] <= 4
          /\ IF app.max_rows = 0
             THEN app'.selected_cell.v[1] = 0
             ELSE usize_lt(app'.selected_cell.v[1], app.max_rows)]_vars

\* C28: selected_index < len(matches) whenever matches is non-empty,
\* selected_index = 0 whenever matches is empty, get_selected is None only
\* when matches is empty, and a move of the selection in a non-empty list
\* goes to the neighbour modulo the length: from the first item back to the
\* last, from the last on to the first.
C28_FuzzySelectionInRange ==
    /\ [](LET fs == app.fuzzy_search IN
          /\ fs.matches # <<>> =>
                fs.selected_index >= 0 /\ fs.selected_index < Len(fs.matches)
          /\ fs.matches = <<>> => fs.selected_index = 0
          /\ (get_selected(fs) = None) <=> (fs.matches = <<>>)
          /\ get_selected(fs).some => get_selected(fs).v = fs.matches[fs.selected_index + 1])
    /\ [][(KeyFuzzyMove /\ app.fuzzy_search.matches # <<>>)
          => LET len == Len(app.fuzzy_search.matches)
                 current == app.fuzzy_search.selected_index
             IN  /\ app'.fuzzy_search.matches = app.fuzzy_search.matches
                 /\ app'.fuzzy_search.selected_index \in
                       {(current + 1) % len, (current + len - 1) % len}]_vars

C28_Witness ==
    /\ app.mode = "FuzzySearch"
    /\ app.fuzzy_search.input = <<"a">>
    /\ app.available_topics = Topics
    /\ app.fuzzy_search.matches = << <<"a">> >>
    /\ app.fuzzy_search.selected_index = 0
    /\ pc = "recv"

\* C29: mode = CellConfig implies that selected_cell is Some; mode =
\* LabelEdit implies that a widget's position is the selected cell; Esc and
\* Enter in LabelEdit lead to CellConfig; Esc in CellConfig and in
\* FuzzySearch leads to Main.
C29_ModeInvariants ==
    /\ [](app.mode = "CellConfig" => app.selected_cell.some)
    /\ [](app.mode = "LabelEdit" => widget_at_selected_cell(app) # 0)
    /\ [][(KeyExitLabelEdit \/ KeySaveLabel) => app'.mode = "CellConfig"]_vars
    /\ [][(KeyExitCellConfig \/ KeyExitFuzzySearch) => app'.mode = "Main"]_vars

C29_Witness ==
    /\ app.mode = "LabelEdit"
    /\ widget_at_selected_cell(app) # 0
    /\ app.label_edit # app.config.widgets[widget_at_selected_cell(app)].label

\* C30: a KV message processed while paused leaves the values map as it
\* is; processed while not paused it sets values[topic] to its value; either
\* way it inserts its topic into available_topics and sets connection_status
\* to Connected.  Toggling pause negates paused, so that two toggles restore
\* the behaviour before them.
C30_PauseFreezesValues ==
    /\ [][RecvKV =>
            \E key \in Topics :
                /\ app'.available_topics = app.available_topics \cup {key}
                /\ app'.connection_status = "Connected"
                /\ app'.paused = app.paused
                /\ IF app.paused
                   THEN app'.values = app.values
                   ELSE /\ app'.values[key] \in {Some(value) : value \in Values}
                        /\ \A t \in Topics \ {key} : app'.values[t] = app.values[t]]_vars
    /\ [][KeyTogglePause => app'.paused = ~app.paused]_vars

C30_Witness ==
    /\ app.paused
    /\ pc = "recv"
    /\ \E t \in app.available_topics : app.values[t] = None
    /\ \E t \in app.available_topics : app.values[t] # None

=============================================================================
